---- MODULE Spec2Model ----
(***************************************************************************)
(* FreeWen (src/app.py): the text-to-table pipeline.  Texts are sequences  *)
(* of characters (one-character strings); an emoji code point is one       *)
(* element, written "U+xxxx".                                              *)
(***************************************************************************)
EXTENDS Integers, Sequences, FiniteSets, TLC

VARIABLES
    pc,             \* position of the running call
    text,           \* mask_url: its argument
    masked_text,    \* mask_url: its return value
    table_text,     \* parse_markdown_table: its argument
    df,             \* parse_markdown_table: its return value
    document,       \* parse_and_display_travel_plan: the travel_plan argument
    travel_plan,    \* ... the local travel_plan after mask_url
    sections,       \* ... travel_plan.split('##')
    idx,            \* ... index of the current section of the for loop
    section_title,  \* ... the title of the current section
    all_dataframes, \* ... the collection being built (a function name -> table)
    rendered,       \* ... what was handed to streamlit, in order
    cell,           \* convert_markdown_links_to_html: its argument
    converted,      \* convert_markdown_links_to_html: its return value
    dataframes,     \* create_excel_export: its argument
    output,         \* create_excel_export: its return value
    returned,       \* the collections earlier calls of the pipeline returned
    calls,          \* the number of calls of the pipeline made so far
    travel_sessions,    \* st.session_state.travel_sessions
    active_session,     \* st.session_state.active_session
    session_counter,    \* st.session_state.session_counter
    messages,           \* st.error / st.info / st.success of the last script run
    parsed_plans,       \* the texts the script handed to the pipeline, in order
    GEMINI_API_KEY,     \* os.getenv('GEMINI_API_KEY')
    request             \* the form's values if Generate was pressed in the last run

\* the variables of the pipeline functions
pipeVars == <<pc, text, masked_text, table_text, df, document, travel_plan,
              sections, idx, section_title, all_dataframes, rendered>>

\* the variables of the other functions and of the script
appVars == <<cell, converted, dataframes, output, returned, calls,
             travel_sessions, active_session, session_counter, messages, parsed_plans,
             GEMINI_API_KEY, request>>

vars == <<pipeVars, appVars>>

\* None, and a value that is there, for a field that holds a value or None
Nothing == <<>>

Just(v) == <<v>>

(***************************************************************************)
(* Python str primitives                                                   *)
(***************************************************************************)
NL == "\n"

\* str.isspace() / regex \s on the characters of the model
Whitespace == {" ", "\t", "\n", "\r", "\f"}

LowerCase == <<"a","b","c","d","e","f","g","h","i","j","k","l","m",
               "n","o","p","q","r","s","t","u","v","w","x","y","z">>

UpperCase == <<"A","B","C","D","E","F","G","H","I","J","K","L","M",
               "N","O","P","Q","R","S","T","U","V","W","X","Y","Z">>

LowerSet == {LowerCase[i] : i \in 1..26}

UpperSet == {UpperCase[i] : i \in 1..26}

upper_char(c) ==
    IF c \in LowerSet
    THEN UpperCase[CHOOSE i \in 1..26 : LowerCase[i] = c]
    ELSE c

lower_char(c) ==
    IF c \in UpperSet
    THEN LowerCase[CHOOSE i \in 1..26 : UpperCase[i] = c]
    ELSE c

upper(s) == <<>> \o [i \in 1..Len(s) |-> upper_char(s[i])]

lower(s) == <<>> \o [i \in 1..Len(s) |-> lower_char(s[i])]

\* s[i:] has the prefix p (i is 1-based)
StartsAt(s, i, p) ==
    /\ i >= 1
    /\ i + Len(p) - 1 <= Len(s)
    /\ IF Len(p) = 1 THEN s[i] = p[1] ELSE \A k \in 1..Len(p) : s[i + k - 1] = p[k]

\* p in s
Contains(s, p) == \E i \in 1..(Len(s) + 1) : StartsAt(s, i, p)

\* the least index of a set of indexes, 0 for the empty set
First(S) == IF S = {} THEN 0 ELSE CHOOSE m \in S : \A k \in S : m <= k

\* s.find(p) from position i on, 1-based; 0 when there is none
Find(s, i, p) == First({k \in i..(Len(s) - Len(p) + 1) : StartsAt(s, k, p)})

\* the first index from i on that holds no whitespace (Len(s) + 1 if none)
RECURSIVE SkipSpace(_, _)
SkipSpace(s, i) ==
    IF i <= Len(s) /\ s[i] \in Whitespace THEN SkipSpace(s, i + 1) ELSE i

\* the last index up to j that holds no whitespace (0 if none)
RECURSIVE SkipSpaceBack(_, _)
SkipSpaceBack(s, j) ==
    IF j >= 1 /\ s[j] \in Whitespace THEN SkipSpaceBack(s, j - 1) ELSE j

\* s.strip()
strip(s) == SubSeq(s, SkipSpace(s, 1), SkipSpaceBack(s, Len(s)))

\* s.split(sep) for a non-empty separator
RECURSIVE split(_, _)
split(s, sep) ==
    LET k == Find(s, 1, sep)
    IN  IF k = 0
        THEN <<s>>
        ELSE <<SubSeq(s, 1, k - 1)>> \o split(SubSeq(s, k + Len(sep), Len(s)), sep)

\* the concatenation of a sequence of texts
RECURSIVE Concat(_)
Concat(ss) == IF ss = <<>> THEN <<>> ELSE Head(ss) \o Concat(Tail(ss))

(***************************************************************************)
(* mask_url (src/app.py 344-365)                                           *)
(***************************************************************************)
S_http == <<"h","t","t","p">>
S_colon_slashes == <<":","/","/">>
S_flight == <<"f","l","i","g","h","t">>
S_gflights == <<"g","o","o","g","l","e",".","c","o","m","/","t","r","a","v","e","l",
                "/","f","l","i","g","h","t","s">>
S_booking == <<"b","o","o","k","i","n","g",".","c","o","m">>
S_hotel == <<"h","o","t","e","l">>
S_agoda == <<"a","g","o","d","a">>
S_gmaps == <<"g","o","o","g","l","e",".","c","o","m","/","m","a","p","s">>
S_maps == <<"m","a","p","s">>

\* the link texts of replace_url
LabelFlight == <<"U+2708","U+FE0F"," ","B","o","o","k"," ","F","l","i","g","h","t">>
LabelHotel == <<"U+1F3E8"," ","B","o","o","k"," ","H","o","t","e","l">>
LabelMap == <<"U+1F4CD"," ","V","i","e","w"," ","M","a","p">>
\* the default of the link_text parameter
LabelLink == <<"U+1F517"," ","L","i","n","k">>

\* where https?:// ends when it starts at i (the index of its last character), 0 if it does not
SchemeEnd(s, i) ==
    IF ~StartsAt(s, i, S_http) THEN 0
    ELSE IF StartsAt(s, i + 4, S_colon_slashes) THEN i + 6
    ELSE IF StartsAt(s, i + 4, <<"s">>) /\ StartsAt(s, i + 5, S_colon_slashes) THEN i + 7
    ELSE 0

\* [^\s\)]
UrlChar(c) == c \notin Whitespace /\ c # ")"

\* the last index of the run of [^\s\)] that holds position j
UrlRunEnd(s, j) ==
    LET stop == First({k \in (j + 1)..Len(s) : ~UrlChar(s[k])})
    IN  IF stop = 0 THEN Len(s) ELSE stop - 1

\* url_pattern r'(https?://[^\s\)]+)' matched at i: the index of the last
\* character of the (greedy) match, 0 if there is no match at i
UrlMatchEnd(s, i) ==
    LET e == SchemeEnd(s, i)
    IN  IF e = 0 \/ e + 1 > Len(s) \/ ~UrlChar(s[e + 1]) THEN 0
        ELSE UrlRunEnd(s, e + 1)

\* the lookbehind (?<!\]\() at i
NotAfterLinkOpen(s, i) == ~(i >= 3 /\ s[i - 2] = "]" /\ s[i - 1] = "(")

\* replace_url with the hotel test before the flight test
replace_url_hotel_first(url) ==
    IF Contains(url, S_booking) \/ Contains(lower(url), S_hotel) \/ Contains(url, S_agoda)
    THEN <<"[">> \o LabelHotel \o <<"]", "(">> \o url \o <<")">>
    ELSE IF Contains(url, S_gflights) \/ Contains(lower(url), S_flight)
    THEN <<"[">> \o LabelFlight \o <<"]", "(">> \o url \o <<")">>
    ELSE IF Contains(url, S_gmaps) \/ Contains(lower(url), S_maps)
    THEN <<"[">> \o LabelMap \o <<"]", "(">> \o url \o <<")">>
    ELSE <<"[">> \o LabelLink \o <<"]", "(">> \o url \o <<")">>

\* replace_url (lines 350-360): the text that replaces the matched url
replace_url(url) ==
    IF Contains(url, S_gflights) \/ Contains(lower(url), S_flight)
    THEN <<"[">> \o LabelFlight \o <<"]", "(">> \o url \o <<")">>
    ELSE IF Contains(url, S_booking) \/ Contains(lower(url), S_hotel) \/ Contains(url, S_agoda)
    THEN <<"[">> \o LabelHotel \o <<"]", "(">> \o url \o <<")">>
    ELSE IF Contains(url, S_gmaps) \/ Contains(lower(url), S_maps)
    THEN <<"[">> \o LabelMap \o <<"]", "(">> \o url \o <<")">>
    ELSE <<"[">> \o LabelLink \o <<"]", "(">> \o url \o <<")">>

\* re.sub(r'(?<!\]\()' + url_pattern, replace_url, text) from position i on:
\* leftmost matches, not overlapping, everything else copied
RECURSIVE SubUrls(_, _)
SubUrls(s, i) ==
    LET k == First({j \in i..Len(s) : NotAfterLinkOpen(s, j) /\ UrlMatchEnd(s, j) # 0})
    IN  IF k = 0 THEN SubSeq(s, i, Len(s))
        ELSE SubSeq(s, i, k - 1) \o replace_url(SubSeq(s, k, UrlMatchEnd(s, k)))
                \o SubUrls(s, UrlMatchEnd(s, k) + 1)

mask_url(t) == SubUrls(t, 1)

(***************************************************************************)
(* convert_markdown_links_to_html (src/app.py 395-408)                     *)
(***************************************************************************)
S_a_href == <<"<","a"," ","h","r","e","f","=","\"">>
S_target_blank == <<"\""," ","t","a","r","g","e","t","=","\"","_","b","l","a","n","k","\"",">">>
S_a_close == <<"<","/","a",">">>

\* pattern r'\[([^\]]+)\]\(([^)]+)\)' matched at i: <<index of "]", index of ")">>,
\* <<0, 0>> if there is no match at i
LinkMatch(s, i) ==
    IF i > Len(s) \/ s[i] # "[" THEN <<0, 0>>
    ELSE LET j == Find(s, i + 1, <<"]">>)
         IN  IF j < i + 2 \/ j + 1 > Len(s) \/ s[j + 1] # "(" THEN <<0, 0>>
             ELSE LET k == Find(s, j + 2, <<")">>)
                  IN  IF k < j + 3 THEN <<0, 0>> ELSE <<j, k>>

\* replace_link (lines 403-406)
replace_link(link_text, url) ==
    S_a_href \o url \o S_target_blank \o link_text \o S_a_close

\* re.sub with count=1: only the first link is replaced
SubLinks_first_only(s, i) ==
    LET k == First({j \in i..Len(s) : LinkMatch(s, j)[2] # 0})
        m == LinkMatch(s, k)
    IN  IF k = 0 THEN SubSeq(s, i, Len(s))
        ELSE SubSeq(s, i, k - 1)
                \o replace_link(SubSeq(s, k + 1, m[1] - 1), SubSeq(s, m[1] + 2, m[2] - 1))
                \o SubSeq(s, m[2] + 1, Len(s))

\* re.sub(pattern, replace_link, str(text)) from position i on
RECURSIVE SubLinks(_, _)
SubLinks(s, i) ==
    LET k == First({j \in i..Len(s) : LinkMatch(s, j)[2] # 0})
        m == LinkMatch(s, k)
    IN  IF k = 0 THEN SubSeq(s, i, Len(s))
        ELSE SubSeq(s, i, k - 1)
                \o replace_link(SubSeq(s, k + 1, m[1] - 1), SubSeq(s, m[1] + 2, m[2] - 1))
                \o SubLinks(s, m[2] + 1)

\* a cell is a str, so pd.isna(text) is False
convert_markdown_links_to_html(t) == SubLinks(t, 1)

(***************************************************************************)
(* parse_markdown_table (src/app.py 367-393)                               *)
(***************************************************************************)
\* return values: None, a DataFrame (columns, data rows), or the ValueError that
\* df[col].apply raises when df[col] is a DataFrame (a repeated column name:
\* pd.isna of a Series in "if pd.isna(text)" has no truth value)
None == [kind |-> "None", columns |-> <<>>, data |-> <<>>]

ValueError == [kind |-> "ValueError", columns |-> <<>>, data |-> <<>>]

DataFrame(data, columns) == [kind |-> "DataFrame", columns |-> columns, data |-> data]

NonEmpty(s) == s # <<>>

\* [line.strip() for line in table_text.strip().split('\n') if line.strip()]
StrippedLines(t) ==
    LET raw == split(strip(t), <<NL>>)
    IN  SelectSeq([i \in 1..Len(raw) |-> strip(raw[i])], NonEmpty)

\* [h.strip() for h in line.split('|') if h.strip()]
SplitCells(line) ==
    LET raw == split(line, <<"|">>)
    IN  SelectSeq([i \in 1..Len(raw) |-> strip(raw[i])], NonEmpty)

\* DataRows with the column-count check replaced by padding and truncation
RECURSIVE DataRows_padded(_, _, _)
DataRows_padded(lines, k, headers) ==
    IF k > Len(lines) THEN <<>>
    ELSE LET row == SplitCells(lines[k])
         IN  (IF Contains(lines[k], <<"|">>)
              THEN <<[c \in 1..Len(headers) |-> IF c <= Len(row) THEN row[c] ELSE <<>>]>>
              ELSE <<>>)
             \o DataRows_padded(lines, k + 1, headers)

\* the loop of lines 379-383 over lines[2:], from the k-th line on
RECURSIVE DataRows(_, _, _)
DataRows(lines, k, headers) ==
    IF k > Len(lines) THEN <<>>
    ELSE LET row == SplitCells(lines[k])
         IN  (IF Contains(lines[k], <<"|">>) /\ Len(row) = Len(headers)
              THEN <<row>> ELSE <<>>)
             \o DataRows(lines, k + 1, headers)

HasDuplicates(seq) == \E i, j \in 1..Len(seq) : i < j /\ seq[i] = seq[j]

\* parse_markdown_table returning a table without rows where line 385 returns None
parse_markdown_table_empty(t) ==
    LET lines == StrippedLines(t)
    IN  IF Len(lines) < 3 THEN None
        ELSE LET headers == SplitCells(lines[1])
                 data == DataRows(lines, 3, headers)
             IN  IF HasDuplicates(headers) /\ data # <<>> THEN ValueError
                 ELSE DataFrame(
                        [r \in 1..Len(data) |->
                            [c \in 1..Len(headers) |->
                                convert_markdown_links_to_html(data[r][c])]],
                        headers)

\* parse_markdown_table (lines 367-393)
parse_markdown_table(t) ==
    LET lines == StrippedLines(t)
    IN  IF Len(lines) < 3 THEN None
        ELSE LET headers == SplitCells(lines[1])
                 data == DataRows(lines, 3, headers)
             IN  IF data = <<>> THEN None
                 ELSE IF HasDuplicates(headers) THEN ValueError
                 ELSE DataFrame(
                        [r \in 1..Len(data) |->
                            [c \in 1..Len(headers) |->
                                convert_markdown_links_to_html(data[r][c])]],
                        headers)

\* df.empty: an axis of length 0
empty(d) == Len(d.columns) = 0 \/ Len(d.data) = 0

(***************************************************************************)
(* re.search(r'\|.*\|.*\n\|[-\s|]+\n(\|.*\n)+', section) (lines 435, 451,  *)
(* 503, 578)                                                               *)
(***************************************************************************)
\* the index of the "\n" that ends the line of position i, 0 if the text ends first
LineEnd(s, i) == Find(s, i, <<NL>>)

\* \|.*\|.*\n at i ('.' is any character but "\n"): the index of its "\n", else 0
HeaderEnd(s, i) ==
    LET e == LineEnd(s, i)
    IN  IF i <= Len(s) /\ s[i] = "|" /\ e # 0 /\ (\E j \in (i + 1)..(e - 1) : s[j] = "|")
        THEN e ELSE 0

\* [-\s|]
SepChar(c) == c = "-" \/ c = "|" \/ c \in Whitespace

\* (\|.*\n)+ at q, greedy: the index of the "\n" of the last line taken, 0 if none
RECURSIVE DataRunEnd(_, _)
DataRunEnd(s, q) ==
    IF q <= Len(s) /\ s[q] = "|" /\ LineEnd(s, q) # 0
    THEN LET e == LineEnd(s, q)
             r == DataRunEnd(s, e + 1)
         IN  IF r = 0 THEN e ELSE r
    ELSE 0

\* \|[-\s|]+\n at a, followed by a data run: the indexes its "\n" can have
SepEnds(s, a) ==
    IF a <= Len(s) /\ s[a] = "|"
    THEN {p \in (a + 2)..Len(s) :
            /\ s[p] = NL
            /\ \A k \in (a + 1)..(p - 1) : SepChar(s[k])
            /\ DataRunEnd(s, p + 1) # 0}
    ELSE {}

SetMax(S) == CHOOSE x \in S : \A y \in S : y <= x

\* the whole pattern at i: the index of the last character of the match (the
\* separator takes the most it can), 0 if there is no match at i
TableMatchEnd(s, i) ==
    LET h == HeaderEnd(s, i)
    IN  IF h = 0 \/ SepEnds(s, h + 1) = {} THEN 0
        ELSE DataRunEnd(s, SetMax(SepEnds(s, h + 1)) + 1)

\* re.search: the leftmost match; table_match.group(0), or None
table_search(s) ==
    LET i == First({k \in 1..Len(s) : s[k] = "|" /\ TableMatchEnd(s, k) # 0})
    IN  IF i = 0 THEN [found |-> FALSE, group0 |-> <<>>]
        ELSE [found |-> TRUE, group0 |-> SubSeq(s, i, TableMatchEnd(s, i))]

(***************************************************************************)
(* the Itinerary branch: grouping by Day (src/app.py 508-563)              *)
(***************************************************************************)
S_Day == <<"D","a","y">>
S_Date == <<"D","a","t","e">>

\* 'Day' in df.columns
HasColumn(d, name) == \E c \in 1..Len(d.columns) : d.columns[c] = name

ColumnIndex(d, name) == CHOOSE c \in 1..Len(d.columns) : d.columns[c] = name

\* df[name]: the cells of a column, in row order
Column(d, name) == [r \in 1..Len(d.data) |-> d.data[r][ColumnIndex(d, name)]]

\* the distinct values in order of last occurrence
RECURSIVE unique_by_last(_)
unique_by_last(vals) ==
    IF vals = <<>> THEN <<>>
    ELSE IF \E i \in 2..Len(vals) : vals[i] = Head(vals)
    THEN unique_by_last(Tail(vals))
    ELSE <<Head(vals)>> \o unique_by_last(Tail(vals))

\* Series.unique(): the distinct values in order of first occurrence
RECURSIVE unique(_)
unique(vals) ==
    IF vals = <<>> THEN <<>>
    ELSE LET init == SubSeq(vals, 1, Len(vals) - 1)
             last == vals[Len(vals)]
         IN  IF \E i \in 1..Len(init) : init[i] = last
             THEN unique(init)
             ELSE unique(init) \o <<last>>

\* df_itinerary[df_itinerary['Day'] == day]: the rows of that day, in order
RECURSIVE RowsOfDay(_, _, _)
RowsOfDay(rows, c, day) ==
    IF rows = <<>> THEN <<>>
    ELSE (IF Head(rows)[c] = day THEN <<Head(rows)>> ELSE <<>>)
         \o RowsOfDay(Tail(rows), c, day)

\* characters with a meaning of their own in a regular expression
RegexMeta == {".", "^", "$", "*", "+", "?", "{", "}", "[", "]", "\\", "|", "(", ")"}

S_stars_Day == <<"*","*","D","a","y"," ">>
S_Total == <<" ","T","o","t","a","l">>

\* [^\*\n]
TotalChar(c) == c # "*" /\ c # NL

\* the length of the run of whitespace that starts at q
RECURSIVE SpaceRun(_, _)
SpaceRun(s, q) == IF q <= Len(s) /\ s[q] \in Whitespace THEN 1 + SpaceRun(s, q + 1) ELSE 0

\* rf'\*\*Day {day} Total' with re.IGNORECASE matched at i (ls is the section in
\* lower case): the day stands in the pattern as it is, so a "." of the day
\* matches any character but "\n"; every other character matches itself
MarkerAt(ls, i, day) ==
    LET lit == lower(S_stars_Day \o day \o S_Total)
        n == Len(S_stars_Day)
    IN  /\ i + Len(lit) - 1 <= Len(ls)
        /\ \A k \in 1..Len(lit) :
              IF k > n /\ k <= n + Len(day) /\ lit[k] = "."
              THEN ls[i + k - 1] # NL
              ELSE ls[i + k - 1] = lit[k]

\* rf'\*\*Day {day} Total:?\s*([^\*\n]+)' with re.IGNORECASE matched at i, for
\* a day whose only metacharacters are "." (ls is s in lower case): the ways
\* <<colon taken, whitespace taken>> after which the group has a first character
TotalWays(s, ls, i, day) ==
    LET lit == lower(S_stars_Day \o day \o S_Total)
        a == i + Len(lit)
    IN  IF ~MarkerAt(ls, i, day) THEN {}
        ELSE {cw \in (0..1) \X (0..SpaceRun(s, a) + SpaceRun(s, a + 1)) :
                /\ (cw[1] = 1 => (a <= Len(s) /\ s[a] = ":"))
                /\ cw[2] <= SpaceRun(s, a + cw[1])
                /\ a + cw[1] + cw[2] <= Len(s)
                /\ TotalChar(s[a + cw[1] + cw[2]])}

\* the way the backtracking takes: ':?' then '\s*' take the most they can
BestWay(W) ==
    CHOOSE cw \in W : \A o \in W : o[1] < cw[1] \/ (o[1] = cw[1] /\ o[2] <= cw[2])

\* the group ([^\*\n]+) that starts at g
TotalRun(s, g) ==
    LET stop == First({k \in g..Len(s) : ~TotalChar(s[k])})
    IN  SubSeq(s, g, IF stop = 0 THEN Len(s) ELSE stop - 1)

\* re.search: the leftmost match and its group(1).strip()
TotalSearch(s, ls, day) ==
    LET i == First({k \in 1..Len(s) : s[k] = "*" /\ TotalWays(s, ls, k, day) # {}})
    IN  IF i = 0 THEN [kind |-> "None", total_text |-> <<>>]
        ELSE LET cw == BestWay(TotalWays(s, ls, i, day))
                 g == i + Len(S_stars_Day) + Len(day) + Len(S_Total) + cw[1] + cw[2]
             IN  [kind |-> "match", total_text |-> strip(TotalRun(s, g))]

\* re.search(day_total_pattern, section, re.IGNORECASE) and, on a match,
\* total_match.group(1).strip().  The day is put into the pattern as it is: a
\* "." in it matches any character, and a day with a "(" and no other
\* metacharacter but "." makes the pattern invalid, so that re.search raises
\* re.error (missing closing parenthesis).
day_total(s, day) ==
    CASE \A k \in 1..Len(day) : day[k] \in RegexMeta => day[k] = "." ->
            TotalSearch(s, lower(s), day)
      [] /\ \E k \in 1..Len(day) : day[k] = "("
         /\ \A k \in 1..Len(day) : day[k] \in RegexMeta => day[k] \in {"(", "."} ->
            [kind |-> "re.error", total_text |-> <<>>]

\* one day of the loop of lines 510-563: what is displayed for it
DayGroup(d, section, day) ==
    LET day_data == RowsOfDay(d.data, ColumnIndex(d, S_Day), day)
    IN  [day |-> day,
         date_val |-> IF HasColumn(d, S_Date)
                      THEN day_data[1][ColumnIndex(d, S_Date)] ELSE <<>>,
         day_data |-> day_data,
         total |-> day_total(section, day)]

\* the groups of all the days, in the order of unique_days
DayGroups(d, section) ==
    LET unique_days == unique(Column(d, S_Day))
    IN  <<>> \o [g \in 1..Len(unique_days) |-> DayGroup(d, section, unique_days[g])]

(***************************************************************************)
(* parse_and_display_travel_plan (src/app.py 410-598)                      *)
(***************************************************************************)
S_hashes == <<"#","#">>
S_FLIGHT == <<"F","L","I","G","H","T">>
S_HOTEL == <<"H","O","T","E","L">>
S_ITINERARY == <<"I","T","I","N","E","R","A","R","Y">>
S_BUDGET == <<"B","U","D","G","E","T">>
S_DESTINATION_MAP == <<"D","E","S","T","I","N","A","T","I","O","N"," ","M","A","P">>
S_MAP == <<"M","A","P">>

\* lines 427-428: section_lines[0].strip().upper()
title_of(section) == upper(strip(split(strip(section), <<NL>>)[1]))

\* the if/elif chain with the HOTEL test before the FLIGHT test
section_type_hotel_first(title) ==
    IF Contains(title, S_HOTEL) THEN "Hotels"
    ELSE IF Contains(title, S_FLIGHT) THEN "Flights"
    ELSE IF Contains(title, S_ITINERARY) THEN "Itinerary"
    ELSE IF Contains(title, S_BUDGET) THEN "Budget"
    ELSE IF Contains(title, S_DESTINATION_MAP) \/ Contains(title, S_MAP) THEN "Map"
    ELSE "Other"

\* the if/elif chain of lines 431, 447, 462, 574, 589, 593
section_type(title) ==
    IF Contains(title, S_FLIGHT) THEN "Flights"
    ELSE IF Contains(title, S_HOTEL) THEN "Hotels"
    ELSE IF Contains(title, S_ITINERARY) THEN "Itinerary"
    ELSE IF Contains(title, S_BUDGET) THEN "Budget"
    ELSE IF Contains(title, S_DESTINATION_MAP) \/ Contains(title, S_MAP) THEN "Map"
    ELSE "Other"

\* one streamlit call: st.header, the table as HTML, st.markdown(section), or
\* what lines 515-563 display for one day of the itinerary
Shown(call, i, name, d, group) ==
    [call |-> call, section |-> i, name |-> name, df |-> d, group |-> group]

NoGroup == [day |-> <<>>, date_val |-> <<>>, day_data |-> <<>>,
            total |-> [kind |-> "None", total_text |-> <<>>]]

\* an assignment that leaves a key that is already there alone
SetItem_keep_first(dict, name, d) ==
    [k \in (DOMAIN dict) \cup {name} |-> IF k \in DOMAIN dict THEN dict[k] ELSE d]

\* all_dataframes[name] = d
SetItem(dict, name, d) ==
    [k \in (DOMAIN dict) \cup {name} |-> IF k = name THEN d ELSE dict[k]]

\* the table of the current section: None without a match of the pattern
SectionTable(section) ==
    LET table_match == table_search(section)
    IN  IF table_match.found THEN parse_markdown_table(table_match.group0) ELSE None

\* variant: the collection is not created anew at the start of a call
ParseBegin_keeps_collection ==
    /\ pc = "call"
    /\ travel_plan' = mask_url(document)
    /\ sections' = split(travel_plan', S_hashes)
    /\ idx' = 1
    /\ pc' = "for"
    /\ UNCHANGED <<text, masked_text, table_text, df, document, section_title, rendered,
                   all_dataframes>>
    /\ UNCHANGED appVars

\* lines 414-420
ParseBegin ==
    /\ pc = "call"
    /\ all_dataframes' = <<>>
    /\ travel_plan' = mask_url(document)
    /\ sections' = split(travel_plan', S_hashes)
    /\ idx' = 1
    /\ pc' = "for"
    /\ UNCHANGED <<text, masked_text, table_text, df, document, section_title, rendered>>
    /\ UNCHANGED appVars

\* lines 422-424: a section that is empty once stripped is skipped
SkipEmptySection ==
    /\ pc = "for"
    /\ idx <= Len(sections)
    /\ strip(sections[idx]) = <<>>
    /\ idx' = idx + 1
    /\ UNCHANGED <<pc, text, masked_text, table_text, df, document, travel_plan,
                   sections, section_title, all_dataframes, rendered>>
    /\ UNCHANGED appVars

\* lines 422-428: the title of the next section
SectionTitle ==
    /\ pc = "for"
    /\ idx <= Len(sections)
    /\ strip(sections[idx]) # <<>>
    /\ section_title' = title_of(sections[idx])
    /\ pc' = "if"
    /\ UNCHANGED <<text, masked_text, table_text, df, document, travel_plan,
                   sections, idx, all_dataframes, rendered>>
    /\ UNCHANGED appVars

\* the branch of the if/elif chain that is taken
InBranch(name) == pc = "if" /\ section_type(section_title) = name

\* the Flights, Hotels and Budget branches (lines 431-445, 447-460, 574-587)
TableBranch(name) ==
    /\ InBranch(name)
    /\ \E d \in {SectionTable(sections[idx])} :
        LET head == Shown("st.header", idx, name, None, NoGroup)
        IN IF d.kind = "ValueError"
           THEN /\ rendered' = rendered \o <<head>>
                /\ pc' = "raised"
                /\ UNCHANGED <<idx, all_dataframes>>
           ELSE IF d.kind = "DataFrame" /\ ~empty(d)
           THEN /\ rendered' = rendered \o <<head, Shown("table", idx, name, d, NoGroup)>>
                /\ all_dataframes' = SetItem(all_dataframes, name, d)
                /\ idx' = idx + 1
                /\ pc' = "for"
           ELSE /\ rendered' = rendered \o <<head, Shown("section", idx, name, None, NoGroup)>>
                /\ idx' = idx + 1
                /\ pc' = "for"
                /\ UNCHANGED all_dataframes
    /\ UNCHANGED <<text, masked_text, table_text, df, document, travel_plan, sections,
                   section_title>>
    /\ UNCHANGED appVars

FlightSection == TableBranch("Flights")

HotelSection == TableBranch("Hotels")

BudgetSection == TableBranch("Budget")

\* the groups displayed before the loop of line 510 stops: all of them, or those
\* up to the first whose pattern does not compile
RECURSIVE ShownGroups(_)
ShownGroups(groups) ==
    IF groups = <<>> THEN <<>>
    ELSE IF Head(groups).total.kind = "re.error" THEN <<Head(groups)>>
    ELSE <<Head(groups)>> \o ShownGroups(Tail(groups))

\* variant: a table without a Day column is displayed but not stored
ItinerarySection_flat_not_stored ==
    /\ InBranch("Itinerary")
    /\ \E d \in {SectionTable(sections[idx])} :
        LET section == sections[idx]
            head == <<Shown("st.header", idx, "Itinerary", None, NoGroup),
                     Shown("style", idx, "Itinerary", None, NoGroup)>>
        IN IF d.kind = "ValueError"
           THEN /\ rendered' = rendered \o head
                /\ pc' = "raised"
                /\ UNCHANGED <<idx, all_dataframes>>
           ELSE IF d.kind = "DataFrame" /\ ~empty(d) /\ HasColumn(d, S_Day)
           THEN LET groups == DayGroups(d, section)
                    shown == ShownGroups(groups)
                IN  /\ rendered' = rendered \o head \o
                          [g \in 1..Len(shown) |->
                              Shown("day", idx, "Itinerary", None, shown[g])]
                    /\ IF shown[Len(shown)].total.kind = "re.error"
                       THEN /\ pc' = "raised"
                            /\ UNCHANGED <<idx, all_dataframes>>
                       ELSE /\ all_dataframes' = SetItem(all_dataframes, "Itinerary", d)
                            /\ idx' = idx + 1
                            /\ pc' = "for"
           ELSE IF d.kind = "DataFrame" /\ ~empty(d)
           THEN /\ rendered' = rendered \o head \o
                                <<Shown("table", idx, "Itinerary", d, NoGroup)>>
                /\ UNCHANGED all_dataframes
                /\ idx' = idx + 1
                /\ pc' = "for"
           ELSE /\ rendered' = rendered \o head \o
                                <<Shown("section", idx, "Itinerary", None, NoGroup)>>
                /\ idx' = idx + 1
                /\ pc' = "for"
                /\ UNCHANGED all_dataframes
    /\ UNCHANGED <<text, masked_text, table_text, df, document, travel_plan, sections,
                   section_title>>
    /\ UNCHANGED appVars

\* the Itinerary branch (lines 462-572)
ItinerarySection ==
    /\ InBranch("Itinerary")
    /\ \E d \in {SectionTable(sections[idx])} :
        LET section == sections[idx]
            head == <<Shown("st.header", idx, "Itinerary", None, NoGroup),
                     Shown("style", idx, "Itinerary", None, NoGroup)>>
        IN IF d.kind = "ValueError"
           THEN /\ rendered' = rendered \o head
                /\ pc' = "raised"
                /\ UNCHANGED <<idx, all_dataframes>>
           ELSE IF d.kind = "DataFrame" /\ ~empty(d) /\ HasColumn(d, S_Day)
           THEN LET groups == DayGroups(d, section)
                    shown == ShownGroups(groups)
                IN  /\ rendered' = rendered \o head \o
                          [g \in 1..Len(shown) |->
                              Shown("day", idx, "Itinerary", None, shown[g])]
                    /\ IF shown[Len(shown)].total.kind = "re.error"
                       THEN /\ pc' = "raised"
                            /\ UNCHANGED <<idx, all_dataframes>>
                       ELSE /\ all_dataframes' = SetItem(all_dataframes, "Itinerary", d)
                            /\ idx' = idx + 1
                            /\ pc' = "for"
           ELSE IF d.kind = "DataFrame" /\ ~empty(d)
           THEN /\ rendered' = rendered \o head \o
                                <<Shown("table", idx, "Itinerary", d, NoGroup)>>
                /\ all_dataframes' = SetItem(all_dataframes, "Itinerary", d)
                /\ idx' = idx + 1
                /\ pc' = "for"
           ELSE /\ rendered' = rendered \o head \o
                                <<Shown("section", idx, "Itinerary", None, NoGroup)>>
                /\ idx' = idx + 1
                /\ pc' = "for"
                /\ UNCHANGED all_dataframes
    /\ UNCHANGED <<text, masked_text, table_text, df, document, travel_plan, sections,
                   section_title>>
    /\ UNCHANGED appVars

\* variant: the Map branch stores the table of its section as the others do
MapSection_stores ==
    /\ InBranch("Map")
    /\ \E d \in {SectionTable(sections[idx])} :
          /\ rendered' = rendered \o <<Shown("st.header", idx, "Map", None, NoGroup),
                                       Shown("section", idx, "Map", None, NoGroup)>>
          /\ all_dataframes' = IF d.kind = "DataFrame" THEN SetItem(all_dataframes, "Map", d)
                                ELSE all_dataframes
    /\ idx' = idx + 1
    /\ pc' = "for"
    /\ UNCHANGED <<text, masked_text, table_text, df, document, travel_plan,
                   sections, section_title>>
    /\ UNCHANGED appVars

\* lines 589-591
MapSection ==
    /\ InBranch("Map")
    /\ rendered' = rendered \o <<Shown("st.header", idx, "Map", None, NoGroup),
                                 Shown("section", idx, "Map", None, NoGroup)>>
    /\ idx' = idx + 1
    /\ pc' = "for"
    /\ UNCHANGED <<text, masked_text, table_text, df, document, travel_plan,
                   sections, section_title, all_dataframes>>
    /\ UNCHANGED appVars

\* lines 593-596
OtherSection ==
    /\ InBranch("Other")
    /\ rendered' = rendered \o <<Shown("section", idx, "Other", None, NoGroup)>>
    /\ idx' = idx + 1
    /\ pc' = "for"
    /\ UNCHANGED <<text, masked_text, table_text, df, document, travel_plan,
                   sections, section_title, all_dataframes>>
    /\ UNCHANGED appVars

\* line 598
ParseReturn ==
    /\ pc = "for"
    /\ idx > Len(sections)
    /\ pc' = "return"
    /\ UNCHANGED <<text, masked_text, table_text, df, document, travel_plan,
                   sections, idx, section_title, all_dataframes, rendered>>
    /\ UNCHANGED appVars

(***************************************************************************)
(* inputs                                                                  *)
(***************************************************************************)
MaxLines == 4
MaxChunks == 4
MaxSections == 2
MaxRows == 3

\* the sequences of at most n elements of S
SeqsUpTo(S, n) == UNION {[1..k -> S] : k \in 0..n}

\* the lines joined by "\n", with or without a last "\n"
RECURSIVE JoinLines(_)
JoinLines(ls) ==
    IF ls = <<>> THEN <<>>
    ELSE IF Len(ls) = 1 THEN ls[1]
    ELSE ls[1] \o <<NL>> \o JoinLines(Tail(ls))

L_header == <<"|"," ","A"," ","|","B","|">>
L_sep == <<"|","-","|","-","|">>
L_row == <<"|","1","|"," ","2"," ","|">>
L_long == <<"|","3","|","x","|","y","|">>
L_blank2 == <<"|","1","|"," ","|">>
L_blank3 == <<"|","1","|"," ","|","2","|">>
L_text == <<"t">>
L_dup == <<"|","A","|","A","|">>

\* the lines of the texts given to parse_markdown_table
TableLineSet == {L_header, L_sep, L_row, L_long, L_blank2, L_blank3, L_text, L_dup}

TableTexts ==
    {JoinLines(ls) \o fin : ls \in SeqsUpTo(TableLineSet, MaxLines), fin \in {<<>>, <<NL>>}}

\* the pieces of the texts given to mask_url
MaskChunkSet == {<<"h","t","t","p",":","/","/","a">>, <<"h","t","t","p","s",":","/","/","b">>, <<"[","x","]","(">>, <<")">>, <<" ">>,
                 <<"/","f","l","i","g","h","t">>, <<"/","H","o","t","e","l">>, <<"/","m","a","p","s">>, <<"a","g","o","d","a">>}

MaskTexts == {Concat(cs) : cs \in SeqsUpTo(MaskChunkSet, MaxChunks)}

\* documents of one Flights section whose body is any text of a few lines
SectionLineSet == {L_header, L_sep, L_row, L_text}

OneTableDocuments ==
    {<<"#","#"," ","F","L","I","G","H","T","S","\n">> \o JoinLines(ls) \o fin :
        ls \in SeqsUpTo(SectionLineSet, MaxLines), fin \in {<<>>, <<NL>>}}

\* documents of a few sections, each a title line and a body
T_one == <<"|","A","|","B","|","\n","|","-","|","-","|","\n","|","1","|","2","|","\n">>
T_two == <<"|","A","|","B","|","\n","|","-","|","-","|","\n","|","3","|","4","|","\n">>
T_bad == <<"|","A","|","B","|","\n","|","-","|","-","|","\n","|","3","|","x","|","y","|","\n">>
T_dup == <<"|","A","|","A","|","\n","|","-","|","-","|","\n","|","1","|","2","|","\n">>
T_txt == <<"F","L","I","G","H","T","\n">>

SectionSet ==
    {t \o <<NL>> \o T_one :
        t \in {<<" ","F","L","I","G","H","T","S">>, <<" ","f","l","i","g","h","t"," ","h","o","t","e","l">>, <<" ","H","O","T","E","L"," ","M","A","P">>, <<" ","I","T","I","N","E","R","A","R","Y">>, <<" ","B","U","D","G","E","T">>, <<" ","M","A","P">>, <<" ","N","O","T","E","S">>, <<" ","B","U","D","G","E","T"," ","I","T","I","N","E","R","A","R","Y">>}}
    \cup {<<" ","F","L","I","G","H","T","S">> \o <<NL>> \o b : b \in {T_two, T_bad, T_dup}}
    \cup {<<" ","N","O","T","E","S">> \o <<NL>> \o T_txt}

RECURSIVE JoinSections(_)
JoinSections(ss) ==
    IF ss = <<>> THEN <<>> ELSE S_hashes \o Head(ss) \o JoinSections(Tail(ss))

ManySectionDocuments ==
    {JoinSections(ss) : ss \in SeqsUpTo(SectionSet, MaxSections) \ {<<>>}}

\* documents of one Itinerary section: a header, the separator, a few rows and
\* sometimes a line with the total of day 1
H_day == <<"|","D","a","y","|","X","|">>
H_day_date == <<"|","D","a","y","|","D","a","t","e","|","X","|">>
H_lower_day == <<"|","d","a","y","|","X","|">>
RowSet(h) ==
    IF h = H_lower_day THEN {<<"|","1","|","a","|">>, <<"|","2","|","b","|">>}
    ELSE IF h = H_day THEN {<<"|","1","|","a","|">>, <<"|",".","|","b","|">>, <<"|","(","|","c","|">>, <<"|"," ","|","d","|">>}
    ELSE {<<"|","1","|","M","o","|","a","|">>, <<"|","1","|","T","u","|","b","|">>, <<"|","0","1","|","W","e","|","c","|">>}

ItineraryDocuments ==
    UNION {{<<"#","#"," ","I","T","I","N","E","R","A","R","Y","\n">> \o h \o <<NL>> \o L_sep \o <<NL>> \o Concat(rows) \o total :
                rows \in SeqsUpTo({r \o <<NL>> : r \in RowSet(h)}, MaxRows),
                total \in {<<>>, <<"*","*","D","a","y"," ","1"," ","T","o","t","a","l",":"," ","5","*","*","\n">>}} :
           h \in {H_day, H_day_date, H_lower_day}}

Documents == OneTableDocuments \cup ManySectionDocuments \cup ItineraryDocuments

(***************************************************************************)
(* specifications                                                          *)
(***************************************************************************)
\* the functions and the script that a specification does not run
AppIdle ==
    /\ cell = <<>> /\ converted = <<>>
    /\ dataframes = <<>> /\ output = Nothing
    /\ returned = {} /\ calls = 0
    /\ travel_sessions = <<>> /\ active_session = Nothing /\ session_counter = 0
    /\ messages = <<>> /\ parsed_plans = <<>>
    /\ GEMINI_API_KEY = Nothing /\ request = Nothing

PipeIdle ==
    /\ pc = "idle"
    /\ text = <<>> /\ masked_text = <<>>
    /\ table_text = <<>> /\ df = None
    /\ document = <<>> /\ travel_plan = <<>> /\ sections = <<>> /\ idx = 0
    /\ section_title = <<>>
    /\ all_dataframes = <<>> /\ rendered = <<>>

\* the pieces of the cells given to convert_markdown_links_to_html
CellChunkSet == {<<"[","a","]">>, <<"(","u",")">>, <<"[","A","m","o","u","n","t","]">>, <<"x">>,
                 <<"[">>, <<")">>, <<"[","]">>, <<"[","b","]","(","v",")">>}

CellTexts == {Concat(cs) : cs \in SeqsUpTo(CellChunkSet, MaxChunks)}

\* convert_markdown_links_to_html called on a cell
ConvertInit ==
    /\ PipeIdle
    /\ cell \in CellTexts /\ converted = <<>>
    /\ dataframes = <<>> /\ output = Nothing
    /\ returned = {} /\ calls = 0
    /\ travel_sessions = <<>> /\ active_session = Nothing /\ session_counter = 0
    /\ messages = <<>> /\ parsed_plans = <<>>
    /\ GEMINI_API_KEY = Nothing /\ request = Nothing

Convert ==
    /\ pc = "idle"
    /\ converted' = convert_markdown_links_to_html(cell)
    /\ pc' = "converted"
    /\ UNCHANGED <<text, masked_text, table_text, df, document, travel_plan, sections, idx,
                   section_title, all_dataframes, rendered>>
    /\ UNCHANGED <<cell, dataframes, output, returned, calls, travel_sessions,
                   active_session, session_counter, messages, parsed_plans,
                   GEMINI_API_KEY, request>>

SpecConvert == ConvertInit /\ [][Convert]_vars

\* mask_url called on a text
MaskInit ==
    /\ pc = "mask_url"
    /\ text \in MaskTexts
    /\ masked_text = <<>>
    /\ table_text = <<>> /\ df = None
    /\ document = <<>> /\ travel_plan = <<>> /\ sections = <<>> /\ idx = 0
    /\ section_title = <<>>
    /\ all_dataframes = <<>> /\ rendered = <<>>
    /\ AppIdle

MaskUrl ==
    /\ pc = "mask_url"
    /\ masked_text' = mask_url(text)
    /\ pc' = "masked"
    /\ UNCHANGED <<text, table_text, df, document, travel_plan, sections, idx,
                   section_title, all_dataframes, rendered>>
    /\ UNCHANGED appVars

SpecMask == MaskInit /\ [][MaskUrl]_vars

\* mask_url called on one line of a table, as the document-wide call of line
\* 417 meets it before the tables are extracted
MaxRowChunks == 4

RowChunkSet == {<<"|">>, <<" ">>, <<"x">>, <<"h","t","t","p",":","/","/","a">>}

RowTexts == {Concat(cs) : cs \in SeqsUpTo(RowChunkSet, MaxRowChunks)}

RowInit ==
    /\ pc = "mask_url"
    /\ text \in RowTexts
    /\ masked_text = <<>>
    /\ table_text = <<>> /\ df = None
    /\ document = <<>> /\ travel_plan = <<>> /\ sections = <<>> /\ idx = 0
    /\ section_title = <<>>
    /\ all_dataframes = <<>> /\ rendered = <<>>
    /\ AppIdle

SpecRow == RowInit /\ [][MaskUrl]_vars

\* parse_markdown_table called on a text
TableInit ==
    /\ pc = "parse_markdown_table"
    /\ table_text \in TableTexts
    /\ df = None
    /\ text = <<>> /\ masked_text = <<>>
    /\ document = <<>> /\ travel_plan = <<>> /\ sections = <<>> /\ idx = 0
    /\ section_title = <<>>
    /\ all_dataframes = <<>> /\ rendered = <<>>
    /\ AppIdle

ParseTable ==
    /\ pc = "parse_markdown_table"
    /\ df' = parse_markdown_table(table_text)
    /\ pc' = "parsed"
    /\ UNCHANGED <<text, masked_text, table_text, document, travel_plan, sections,
                   idx, section_title, all_dataframes, rendered>>
    /\ UNCHANGED appVars

SpecTable == TableInit /\ [][ParseTable]_vars

\* parse_and_display_travel_plan called on a document
Init ==
    /\ pc = "call"
    /\ document \in Documents
    /\ travel_plan = <<>> /\ sections = <<>> /\ idx = 0
    /\ section_title = <<>>
    /\ all_dataframes = <<>> /\ rendered = <<>>
    /\ text = <<>> /\ masked_text = <<>>
    /\ table_text = <<>> /\ df = None
    /\ AppIdle

Next ==
    \/ ParseBegin
    \/ SkipEmptySection
    \/ SectionTitle
    \/ FlightSection
    \/ HotelSection
    \/ ItinerarySection
    \/ BudgetSection
    \/ MapSection
    \/ OtherSection
    \/ ParseReturn

Spec == Init /\ [][Next]_vars

(***************************************************************************)
(* parse_and_display_travel_plan called several times                      *)
(***************************************************************************)
MaxCalls == 3

\* the section bodies of the documents given to the calls
S_T_day == H_day \o <<NL>> \o L_sep \o <<NL>> \o <<"|","1","|","a","|","\n","|",".","|","b","|","\n">>
S_T_paren == H_day \o <<NL>> \o L_sep \o <<NL>> \o <<"|","(","|","c","|","\n">>

\* the documents: between them they take every branch of the loop, and one
\* of them makes the itinerary branch raise
TwiceDocuments ==
    {JoinSections(<<<<" ","F","L","I","G","H","T","S">> \o <<NL>> \o T_one,
                    <<" ","H","O","T","E","L","S">> \o <<NL>> \o T_two>>),
     JoinSections(<<<<" ","F","L","I","G","H","T","S">> \o <<NL>> \o T_two>>),
     JoinSections(<<<<" ","I","T","I","N","E","R","A","R","Y">> \o <<NL>> \o S_T_day,
                    <<" ","B","U","D","G","E","T">> \o <<NL>> \o T_one>>),
     JoinSections(<<<<" ","M","A","P">> \o <<NL>> \o T_one,
                    <<" ","N","O","T","E","S">> \o <<NL>> \o T_one>>),
     JoinSections(<<<<" ","I","T","I","N","E","R","A","R","Y">> \o <<NL>> \o S_T_paren>>)}

TwiceInit ==
    /\ pc = "call"
    /\ document \in TwiceDocuments
    /\ travel_plan = <<>> /\ sections = <<>> /\ idx = 0
    /\ section_title = <<>>
    /\ all_dataframes = <<>> /\ rendered = <<>>
    /\ text = <<>> /\ masked_text = <<>>
    /\ table_text = <<>> /\ df = None
    /\ returned = {} /\ calls = 1
    /\ cell = <<>> /\ converted = <<>>
    /\ dataframes = <<>> /\ output = Nothing
    /\ travel_sessions = <<>> /\ active_session = Nothing /\ session_counter = 0
    /\ messages = <<>> /\ parsed_plans = <<>>
    /\ GEMINI_API_KEY = Nothing /\ request = Nothing

\* the call is over (it returned or raised) and the function is called again,
\* on any document: what the call returned is noted
CallAgain ==
    /\ pc \in {"return", "raised"}
    /\ calls < MaxCalls
    /\ calls' = calls + 1
    /\ returned' = IF pc = "return" THEN returned \cup {<<document, all_dataframes>>}
                   ELSE returned
    /\ document' \in TwiceDocuments
    /\ rendered' = <<>>
    /\ pc' = "call"
    /\ UNCHANGED <<text, masked_text, table_text, df, travel_plan, sections, idx,
                   section_title, all_dataframes>>
    /\ UNCHANGED <<cell, converted, dataframes, output, travel_sessions, active_session,
                   session_counter, messages, parsed_plans,
                   GEMINI_API_KEY, request>>

TwiceNext ==
    \/ Next
    \/ CallAgain

SpecTwice == TwiceInit /\ [][TwiceNext]_vars

(***************************************************************************)
(* the script (src/app.py 13-21, 610-698, 971-1101): sessions, Generate    *)
(***************************************************************************)
\* the value of a call that returns or raises
Returned(v) == [kind |-> "return", value |-> v, str |-> ""]

Raised(kind, str) == [kind |-> kind, value |-> <<>>, str |-> str]

\* one pass of the loop of lines 420-596, as a function of the fragment, its
\* category and its table: the collection after it, or what its branch raises
parse_section(section, name, d, collected) ==
    IF strip(section) = <<>> \/ name \in {"Map", "Other"}
    THEN Returned(collected)
    ELSE IF d.kind = "ValueError"
    THEN Raised("ValueError", "The truth value of a DataFrame is ambiguous")
    ELSE IF d.kind # "DataFrame" \/ empty(d)
    THEN Returned(collected)
    ELSE IF /\ name = "Itinerary"
            /\ HasColumn(d, S_Day)
            /\ \E r \in 1..Len(d.data) :
                  day_total(section, Column(d, S_Day)[r]).kind = "re.error"
    THEN Raised("re.error", "missing ), unterminated subpattern")
    ELSE Returned(SetItem(collected, name, d))

\* the loop from the i-th fragment on, done being the outcome of the passes
\* before it: it stops at the first pass that raises
RECURSIVE parse_sections(_, _, _)
parse_sections(secs, i, done) ==
    IF i > Len(secs) \/ done.kind # "return" THEN done
    ELSE parse_sections(secs, i + 1,
                        parse_section(secs[i], section_type(title_of(secs[i])),
                                      SectionTable(secs[i]), done.value))

\* parse_and_display_travel_plan(travel_plan, ...) as a function of its text
parse_and_display_travel_plan(plan) ==
    parse_sections(split(mask_url(plan), S_hashes), 1, Returned(<<>>))

\* get_gemini_client (187-191): without GEMINI_API_KEY it raises ValueError;
\* with it, genai.Client is evaluated, and the module imports the names
\* Client and types only (line 3): the name genai is not defined
get_gemini_client(api_key) ==
    IF api_key = Nothing
    THEN Raised("ValueError", "GEMINI_API_KEY environment variable is not set")
    ELSE Raised("NameError", "name 'genai' is not defined")

\* generate_travel_plan (193-342): response.text of the service, once there
\* is a client
generate_travel_plan(api_key, response) ==
    LET client == get_gemini_client(api_key)
    IN  IF client.kind # "return" THEN client ELSE Returned(response)

\* a message of the result area
Msg(call, msg) == [call |-> call, msg |-> msg]

\* variant: a new session starts with an empty collection and no plan
new_session_with_dataframes(id) ==
    [id |-> id, travel_plan |-> Nothing, dataframes |-> Just(<<>>), bookings |-> <<>>]

\* lines 627-645
new_session(id) == [id |-> id, travel_plan |-> Nothing, dataframes |-> Nothing, bookings |-> <<>>]

\* next((s for s in travel_sessions if s['id'] == active_session), None), as
\* the position in the list (0 for None)
ActiveIndex(sessions, active) ==
    IF active = Nothing THEN 0
    ELSE First({i \in 1..Len(sessions) : sessions[i].id = active[1]})

\* the widgets' values and the environment of a request
MaxSessions == 3
Cities == {"", "Manila"}
Dates == 1..2
Budgets == {0, 100}
ApiKeys == {Nothing, Just("key")}
Responses == {JoinSections(<<ss>>) : ss \in SectionSet}

\* what the pipeline gives for each text the service can return
Parsed == [plan \in Responses |-> parse_and_display_travel_plan(plan)]

\* what a run of the script in which Generate is not pressed shows (1077-1101):
\* the stored plan of the active session, parsed again outside any try
Redisplay(sessions, active) ==
    LET a == ActiveIndex(sessions, active)
    IN  IF a = 0 \/ sessions[a].travel_plan = Nothing \/ sessions[a].travel_plan = Just(<<>>)
        THEN [messages |-> <<>>, parsed_plans |-> <<>>]
        ELSE LET parsed == Parsed[sessions[a].travel_plan[1]]
             IN  [messages |-> <<Msg("st.info", "Previously generated travel plan")>>
                                \o (IF parsed.kind = "return" THEN <<>>
                                    ELSE <<Msg("exception", parsed.str)>>),
                  parsed_plans |-> <<sessions[a].travel_plan[1]>>]

\* variant: the pipeline runs and its result is stored whatever the AI call did
after_try_parse_anyway(session, result) ==
    [session |-> [session EXCEPT !.travel_plan = Just(result.value),
                                 !.dataframes = Just(<<>>)],
     messages |-> <<Msg("st.error", result.str),
                    Msg("st.info", "Please check your GEMINI_API_KEY")>>,
     parsed_plans |-> <<result.value>>]

\* lines 1015-1074: the try block after the AI call gave result, and its
\* except branch
after_try(session, result) ==
    IF result.kind # "return"
    THEN [session |-> session,
          messages |-> <<Msg("st.error", result.str),
                         Msg("st.info", "Please check your GEMINI_API_KEY")>>,
          parsed_plans |-> <<>>]
    ELSE LET parsed == Parsed[result.value]
         IN  IF parsed.kind # "return"
             THEN [session |-> session,
                   messages |-> <<Msg("st.success", "Your travel plan is ready!"),
                                  Msg("st.error", parsed.str),
                                  Msg("st.info", "Please check your GEMINI_API_KEY")>>,
                   parsed_plans |-> <<result.value>>]
             ELSE [session |-> [session EXCEPT !.travel_plan = Just(result.value),
                                               !.dataframes = Just(parsed.value)],
                   messages |-> <<Msg("st.success", "Your travel plan is ready!"),
                                  IF parsed.value # <<>>
                                  THEN Msg("st.download_button", "Export to Excel")
                                  ELSE Msg("st.warning", "No tabular data available for export")>>,
                   parsed_plans |-> <<result.value>>]

\* variant: the request also empties the collections of the other sessions
set_session_all(sessions, a, session) ==
    [i \in 1..Len(sessions) |->
        IF i = a THEN session ELSE [sessions[i] EXCEPT !.dataframes = Just(<<>>)]]

\* active_session is one of the dicts of the list: assigning to its keys
\* (1025-1026) changes that element of the list and no other
set_session(sessions, a, session) == [sessions EXCEPT ![a] = session]

AppInit ==
    /\ PipeIdle
    /\ cell = <<>> /\ converted = <<>>
    /\ dataframes = <<>> /\ output = Nothing
    /\ returned = {} /\ calls = 0
    /\ travel_sessions = <<>>
    /\ active_session = Nothing
    /\ session_counter = 0
    /\ messages = <<>> /\ parsed_plans = <<>>
    /\ GEMINI_API_KEY \in ApiKeys /\ request = Nothing

\* variant: the counter is taken from the length of the list
next_counter_from_len(counter, sessions) == Len(sessions) + 1

\* line 625: st.session_state.session_counter += 1
next_counter(counter, sessions) == counter + 1

\* lines 624-648; st.rerun() runs the script again
NewSession ==
    /\ session_counter < MaxSessions
    /\ session_counter' = next_counter(session_counter, travel_sessions)
    /\ travel_sessions' = Append(travel_sessions, new_session(session_counter'))
    /\ active_session' = Just(session_counter')
    /\ \E shown \in {Redisplay(travel_sessions', active_session')} :
          /\ messages' = shown.messages
          /\ parsed_plans' = shown.parsed_plans
    /\ request' = Nothing
    /\ UNCHANGED <<pipeVars, GEMINI_API_KEY, cell, converted, dataframes, output, returned, calls>>

\* lines 665-672
SelectSession ==
    /\ \E i \in 1..Len(travel_sessions) :
          active_session' = Just(travel_sessions[i].id)
    /\ \E shown \in {Redisplay(travel_sessions, active_session')} :
          /\ messages' = shown.messages
          /\ parsed_plans' = shown.parsed_plans
    /\ request' = Nothing
    /\ UNCHANGED <<pipeVars, GEMINI_API_KEY, cell, converted, dataframes, output, returned, calls,
                   travel_sessions, session_counter>>

\* variant: the sessions up to the deleted one are removed with it
remove_session_and_before(sessions, id) ==
    SubSeq(sessions, First({i \in 1..Len(sessions) : sessions[i].id = id}) + 1, Len(sessions))

\* line 677: [s for s in travel_sessions if s['id'] != session['id']]
remove_session(sessions, id) == SelectSeq(sessions, LAMBDA s : s.id # id)

\* variant: active_session is left as it is
active_after_delete_unchanged(active, id, remaining) == active

\* lines 678-679
active_after_delete(active, id, remaining) ==
    IF active = Just(id)
    THEN IF remaining # <<>> THEN Just(remaining[1].id) ELSE Nothing
    ELSE active

\* lines 676-680
DeleteSession ==
    /\ \E i \in 1..Len(travel_sessions) :
          /\ travel_sessions' = remove_session(travel_sessions, travel_sessions[i].id)
          /\ active_session' = active_after_delete(active_session, travel_sessions[i].id,
                                                   travel_sessions')
    /\ \E shown \in {Redisplay(travel_sessions', active_session')} :
          /\ messages' = shown.messages
          /\ parsed_plans' = shown.parsed_plans
    /\ request' = Nothing
    /\ UNCHANGED <<pipeVars, GEMINI_API_KEY, cell, converted, dataframes, output, returned, calls,
                   session_counter>>

\* variant: the budget is checked first
validate_budget_first(origin, destination, start_date, end_date, budget) ==
    IF budget <= 0 THEN "Please enter a valid budget."
    ELSE IF start_date >= end_date THEN "End date must be after start date."
    ELSE IF origin = "" \/ destination = ""
    THEN "Please enter both origin and destination cities."
    ELSE ""

\* lines 974-979: the message of the first check that fails, "" when none does
validate(origin, destination, start_date, end_date, budget) ==
    IF origin = "" \/ destination = ""
    THEN "Please enter both origin and destination cities."
    ELSE IF start_date >= end_date THEN "End date must be after start date."
    ELSE IF budget <= 0 THEN "Please enter a valid budget."
    ELSE ""

\* lines 971-1074: Generate pressed in the form of the active session
Generate ==
    /\ ActiveIndex(travel_sessions, active_session) # 0
    /\ \E origin, destination \in Cities, start_date, end_date \in Dates, budget \in Budgets :
          /\ request' = Just([origin |-> origin, destination |-> destination,
                              start_date |-> start_date, end_date |-> end_date,
                              budget |-> budget])
          /\ \E error \in {validate(origin, destination, start_date, end_date, budget)} :
                IF error # ""
                THEN /\ messages' = <<Msg("st.error", error)>>
                     /\ parsed_plans' = <<>>
                     /\ UNCHANGED travel_sessions
                ELSE \E response \in Responses :
                     \E a \in {ActiveIndex(travel_sessions, active_session)} :
                     \E done \in {after_try(travel_sessions[a],
                                            generate_travel_plan(GEMINI_API_KEY, response))} :
                        /\ messages' = <<Msg("st.info", "Trip Summary")>> \o done.messages
                        /\ parsed_plans' = done.parsed_plans
                        /\ travel_sessions' = set_session(travel_sessions, a, done.session)
    /\ UNCHANGED <<pipeVars, GEMINI_API_KEY, cell, converted, dataframes, output, returned, calls,
                   active_session, session_counter>>

\* a run of the script for any other interaction (lines 1077-1101)
Rerun ==
    /\ \E shown \in {Redisplay(travel_sessions, active_session)} :
          /\ messages' = shown.messages
          /\ parsed_plans' = shown.parsed_plans
    /\ request' = Nothing
    /\ UNCHANGED <<pipeVars, GEMINI_API_KEY, cell, converted, dataframes, output, returned, calls,
                   travel_sessions, active_session, session_counter>>

AppNext ==
    \/ NewSession
    \/ SelectSession
    \/ DeleteSession
    \/ Generate
    \/ Rerun

SpecApp == AppInit /\ [][AppNext]_vars

(***************************************************************************)
(* the Bookings & Tickets tab (src/app.py 1146-1261)                       *)
(***************************************************************************)
MaxBookings == 3
FileNames == {"a.pdf", "b.png"}

\* lines 1184-1200: the files are appended one by one, each with the id
\* len(active_session['bookings']) + 1 at that moment
RECURSIVE save_documents(_, _)
save_documents(bookings, uploaded_files) ==
    IF uploaded_files = <<>> THEN bookings
    ELSE save_documents(Append(bookings, [id |-> Len(bookings) + 1,
                                          name |-> Head(uploaded_files)]),
                        Tail(uploaded_files))

\* line 1247: [b for b in active_session['bookings'] if b['id'] != booking['id']]
delete_booking(bookings, id) == SelectSeq(bookings, LAMBDA b : b.id # id)

\* one session, just created and active, and nothing uploaded
BookingsInit ==
    /\ PipeIdle
    /\ cell = <<>> /\ converted = <<>>
    /\ dataframes = <<>> /\ output = Nothing
    /\ returned = {} /\ calls = 0
    /\ travel_sessions = <<new_session(1)>>
    /\ active_session = Just(1)
    /\ session_counter = 1
    /\ messages = <<>> /\ parsed_plans = <<>>
    /\ GEMINI_API_KEY \in ApiKeys /\ request = Nothing

\* lines 1182-1203: Save Documents pressed with files in the uploader
SaveDocuments ==
    /\ \E a \in {ActiveIndex(travel_sessions, active_session)} :
       \E uploaded_files \in SeqsUpTo(FileNames, 2) \ {<<>>} :
          /\ a # 0
          /\ Len(travel_sessions[a].bookings) + Len(uploaded_files) <= MaxBookings
          /\ travel_sessions' =
                [travel_sessions EXCEPT ![a].bookings = save_documents(@, uploaded_files)]
    /\ UNCHANGED <<pipeVars, GEMINI_API_KEY, request, cell, converted, dataframes, output, returned, calls,
                   active_session, session_counter, messages, parsed_plans>>

\* lines 1245-1249: the delete button of one saved document
DeleteBooking ==
    /\ \E a \in {ActiveIndex(travel_sessions, active_session)} :
          /\ a # 0
          /\ \E k \in 1..Len(travel_sessions[a].bookings) :
                travel_sessions' =
                   [travel_sessions EXCEPT ![a].bookings =
                       delete_booking(@, travel_sessions[a].bookings[k].id)]
    /\ UNCHANGED <<pipeVars, GEMINI_API_KEY, request, cell, converted, dataframes, output, returned, calls,
                   active_session, session_counter, messages, parsed_plans>>

\* lines 1258-1261: Clear All Documents
ClearAllDocuments ==
    /\ \E a \in {ActiveIndex(travel_sessions, active_session)} :
          /\ a # 0
          /\ travel_sessions[a].bookings # <<>>
          /\ travel_sessions' = [travel_sessions EXCEPT ![a].bookings = <<>>]
    /\ UNCHANGED <<pipeVars, GEMINI_API_KEY, request, cell, converted, dataframes, output, returned, calls,
                   active_session, session_counter, messages, parsed_plans>>

BookingsNext ==
    \/ SaveDocuments
    \/ DeleteBooking
    \/ ClearAllDocuments

SpecBookings == BookingsInit /\ [][BookingsNext]_vars

(***************************************************************************)
(* create_excel_export (src/app.py 600-608)                                *)
(***************************************************************************)
\* worksheet.write of the xlsxwriter engine, which to_excel uses for every
\* cell: a str that begins with "=" is written as a formula, any other str as
\* a string; the text written is the str
write(value) ==
    [type |-> IF value # <<>> /\ value[1] = "=" THEN "formula" ELSE "string",
     value |-> value]

\* variant: index=True, the default of to_excel: a first column with the index
to_excel_with_index(d) ==
    [header |-> <<write(<<>>)>> \o [c \in 1..Len(d.columns) |-> write(d.columns[c])],
     rows |-> [r \in 1..Len(d.data) |->
                  <<write(<<"i">>)>> \o [c \in 1..Len(d.columns) |-> write(d.data[r][c])]]]

\* df.to_excel(writer, sheet_name=sheet_name, index=False): the header row,
\* then one row per row of the table
to_excel(d) ==
    [header |-> [c \in 1..Len(d.columns) |-> write(d.columns[c])],
     rows |-> [r \in 1..Len(d.data) |-> [c \in 1..Len(d.columns) |-> write(d.data[r][c])]]]

\* the workbook closed with no worksheet added gets the engine's default one
DefaultSheets == [name \in {"Sheet1"} |-> [header |-> <<>>, rows |-> <<>>]]

\* lines 602-608: a worksheet per item of the dict, then the buffer is returned
create_excel_export(dfs) ==
    [kind |-> "BytesIO",
     sheets |-> IF DOMAIN dfs = {} THEN DefaultSheets
                ELSE [sheet_name \in DOMAIN dfs |-> to_excel(dfs[sheet_name])]]

\* the collections given to create_excel_export: tables that parse_markdown_table
\* returns, under names of the pipeline
MaxSheetRows == 2
ExcelRowLines == {<<"|","1","|","2","|","\n">>,
                  <<"|","=","1","|","[","a","]","(","u",")","|","\n">>}
ExcelTables ==
    {parse_markdown_table(<<"|","A","|","B","|","\n","|","-","|","-","|","\n">> \o Concat(rows)) :
        rows \in SeqsUpTo(ExcelRowLines, MaxSheetRows) \ {<<>>}}
ExcelCollections ==
    UNION {[names -> ExcelTables] : names \in SUBSET {"Flights", "Hotels", "Itinerary", "Budget"}}

ExcelInit ==
    /\ PipeIdle
    /\ dataframes \in ExcelCollections /\ output = Nothing
    /\ cell = <<>> /\ converted = <<>>
    /\ returned = {} /\ calls = 0
    /\ travel_sessions = <<>> /\ active_session = Nothing /\ session_counter = 0
    /\ messages = <<>> /\ parsed_plans = <<>>
    /\ GEMINI_API_KEY = Nothing /\ request = Nothing

ExcelExport ==
    /\ pc = "idle"
    /\ output' = Just(create_excel_export(dataframes))
    /\ pc' = "exported"
    /\ UNCHANGED <<text, masked_text, table_text, df, document, travel_plan, sections, idx,
                   section_title, all_dataframes, rendered>>
    /\ UNCHANGED <<cell, converted, dataframes, returned, calls, travel_sessions,
                   active_session, session_counter, messages, parsed_plans,
                   GEMINI_API_KEY, request>>

SpecExcel == ExcelInit /\ [][ExcelExport]_vars

(***************************************************************************)
(* properties of parse_markdown_table                                      *)
(***************************************************************************)
\* the lines of table_text after the header and separator lines
DataLinesOf(t) ==
    LET lines == StrippedLines(t)
    IN  IF Len(lines) < 3 THEN <<>> ELSE SubSeq(lines, 3, Len(lines))

\* the number of cells the extractor gets from the header line
HeaderCountOf(t) == Len(SplitCells(StrippedLines(t)[1]))

\* the cells of a line, converted as the cells of a table are
ConvertedCells(line) ==
    LET cells == SplitCells(line)
    IN  [c \in 1..Len(cells) |-> convert_markdown_links_to_html(cells[c])]

\* the lines among ls that hold a pipe and give exactly n cells, in order
RECURSIVE LinesWithCount(_, _)
LinesWithCount(ls, n) ==
    IF ls = <<>> THEN <<>>
    ELSE (IF Contains(Head(ls), <<"|">>) /\ Len(SplitCells(Head(ls))) = n
          THEN <<Head(ls)>> ELSE <<>>)
         \o LinesWithCount(Tail(ls), n)

\* C1: in a returned table every row has as many cells as there are columns;
\* the rows are, in their original order, exactly the data lines whose cell
\* count is the header's, each with all of its cells (none padded or
\* truncated); a data line with another cell count gives no row.
C1_RowsMatchHeader ==
    (pc = "parsed" /\ df.kind = "DataFrame") =>
        LET kept == LinesWithCount(DataLinesOf(table_text), HeaderCountOf(table_text))
        IN  /\ \A r \in 1..Len(df.data) : Len(df.data[r]) = Len(df.columns)
            /\ Len(df.data) = Len(kept)
            /\ \A r \in 1..Len(df.data) : df.data[r] = ConvertedCells(kept[r])

\* a table was returned for a text with a data line of the right cell count
\* and one of another cell count
C1_Witness ==
    /\ pc = "parsed"
    /\ df.kind = "DataFrame"
    /\ Len(df.data) >= 1
    /\ \E k \in 1..Len(DataLinesOf(table_text)) :
          /\ Contains(DataLinesOf(table_text)[k], <<"|">>)
          /\ Len(SplitCells(DataLinesOf(table_text)[k])) # HeaderCountOf(table_text)

\* the cells of a line when only the empty fragments before the first pipe
\* and after the last pipe are discarded
Slots(line) ==
    LET raw == split(line, <<"|">>)
        cells == [i \in 1..Len(raw) |-> strip(raw[i])]
        a == IF cells[1] = <<>> THEN 2 ELSE 1
        b == IF cells[Len(cells)] = <<>> THEN Len(cells) - 1 ELSE Len(cells)
    IN  SubSeq(cells, a, b)

\* the rows of a table whose lines are split into Slots
RECURSIVE SlotRows(_, _)
SlotRows(ls, n) ==
    IF ls = <<>> THEN <<>>
    ELSE (IF Contains(Head(ls), <<"|">>) /\ Len(Slots(Head(ls))) = n
          THEN <<[c \in 1..n |-> convert_markdown_links_to_html(Slots(Head(ls))[c])]>>
          ELSE <<>>)
         \o SlotRows(Tail(ls), n)

\* C2: only the empty leading and trailing fragments of a line are discarded:
\* the rows of the table are the data lines that have as many cells between
\* their outer pipes as the header has, blank cells included and kept as
\* empty strings; a line with one cell more, one of them blank, gives no row.
C2_BlankCellsKept ==
    (pc = "parsed" /\ Len(StrippedLines(table_text)) >= 3) =>
        LET rows == SlotRows(DataLinesOf(table_text),
                             Len(Slots(StrippedLines(table_text)[1])))
        IN  IF rows = <<>> THEN df = None
            ELSE df.kind = "DataFrame" /\ df.data = rows

(***************************************************************************)
(* properties of mask_url                                                  *)
(***************************************************************************)
\* the occurrences of url_pattern in s from position i on, as re.findall
\* gives them: pairs <<first index, last index>>
RECURSIVE UrlOccurrences(_, _)
UrlOccurrences(s, i) ==
    LET k == First({j \in i..Len(s) : UrlMatchEnd(s, j) # 0})
    IN  IF k = 0 THEN <<>>
        ELSE <<(<<k, UrlMatchEnd(s, k)>>)>> \o UrlOccurrences(s, UrlMatchEnd(s, k) + 1)

\* the occurrence is the url of a link [text](url)
Wrapped(s, occ) ==
    /\ occ[1] >= 5
    /\ s[occ[1] - 1] = "(" /\ s[occ[1] - 2] = "]"
    /\ \E a \in 1..(occ[1] - 4) :
          /\ s[a] = "["
          /\ \A k \in (a + 1)..(occ[1] - 3) : s[k] # "]"
    /\ occ[2] < Len(s) /\ s[occ[2] + 1] = ")"

\* C6: a text in which every URL occurrence is already wrapped as [text](url),
\* or that holds no URL, is returned unchanged.
C6_WrappedUnchanged ==
    (pc = "masked" /\ \A k \in 1..Len(UrlOccurrences(text, 1)) :
                          Wrapped(text, UrlOccurrences(text, 1)[k]))
        => masked_text = text

\* the rules of the categories
FlightRule(url) == Contains(url, S_gflights) \/ Contains(lower(url), S_flight)

HotelRule(url) ==
    Contains(url, S_booking) \/ Contains(lower(url), S_hotel) \/ Contains(url, S_agoda)

MapRule(url) == Contains(url, S_gmaps) \/ Contains(lower(url), S_maps)

\* the label of the first category, in the order flight, hotel, map, whose
\* rule the url matches, else the generic label
LabelInOrder(url) ==
    LET rules == <<FlightRule(url), HotelRule(url), MapRule(url), TRUE>>
        labels == <<LabelFlight, LabelHotel, LabelMap, LabelLink>>
        first == CHOOSE k \in 1..4 : rules[k] /\ \A j \in 1..(k - 1) : ~rules[j]
    IN  labels[first]

\* the text with every bare URL (an occurrence of the pattern not right after
\* "](") from position i on replaced by [label](url)
RECURSIVE BareUrlsLabelled(_, _)
BareUrlsLabelled(s, i) ==
    LET k == First({j \in i..Len(s) : NotAfterLinkOpen(s, j) /\ UrlMatchEnd(s, j) # 0})
        url == SubSeq(s, k, UrlMatchEnd(s, k))
    IN  IF k = 0 THEN SubSeq(s, i, Len(s))
        ELSE SubSeq(s, i, k - 1)
                \o <<"[">> \o LabelInOrder(url) \o <<"]", "(">> \o url \o <<")">>
                \o BareUrlsLabelled(s, UrlMatchEnd(s, k) + 1)

\* C7: every bare URL is replaced by [label](url), the label being that of
\* the first of flight, hotel, map whose rule matches the URL, the generic
\* label if none does, and the URL itself is the link target, verbatim.
C7_LabelOrder == pc = "masked" => masked_text = BareUrlsLabelled(text, 1)

\* a bare URL that matches the flight rule and the hotel rule was masked
C7_Witness ==
    /\ pc = "masked"
    /\ masked_text # text
    /\ \E k \in 1..Len(UrlOccurrences(text, 1)) :
          LET occ == UrlOccurrences(text, 1)[k]
              url == SubSeq(text, occ[1], occ[2])
          IN  /\ NotAfterLinkOpen(text, occ[1])
              /\ FlightRule(url) /\ HotelRule(url)
              /\ Contains(masked_text, <<"[">> \o LabelFlight \o <<"]", "(">> \o url \o <<")">>)

(***************************************************************************)
(* properties of parse_and_display_travel_plan                             *)
(***************************************************************************)
TableCategories == {"Flights", "Hotels", "Itinerary", "Budget"}

\* the category of the i-th fragment of the document
CategoryOf(i) == section_type(title_of(sections[i]))

\* the fragments before the current one that are of the category and give a table
TableSections(name) ==
    {i \in 1..(idx - 1) :
        /\ strip(sections[i]) # <<>>
        /\ CategoryOf(i) = name
        /\ SectionTable(sections[i]).kind = "DataFrame"}

Largest(S) == CHOOSE m \in S : \A k \in S : k <= m

\* C3 as stated: of several sections of one category that give a table, the
\* collection returned holds the table of the first; later ones do not replace it.
C3_FirstTableKept ==
    pc = "return" =>
        \A name \in TableCategories :
            TableSections(name) # {} =>
                /\ name \in DOMAIN all_dataframes
                /\ all_dataframes[name] = SectionTable(sections[First(TableSections(name))])

\* C3: of several sections of one category that give a table, the collection
\* returned holds the table of the last in document order (each later table
\* replaces the earlier one); a category without such a section has no entry.
C3_LastTableKept ==
    pc = "return" =>
        \A name \in TableCategories :
            IF TableSections(name) = {} THEN name \notin DOMAIN all_dataframes
            ELSE /\ name \in DOMAIN all_dataframes
                 /\ all_dataframes[name] = SectionTable(sections[Largest(TableSections(name))])

\* the call returned for a document with two sections of one category that
\* give different tables
C3_Witness ==
    /\ pc = "return"
    /\ \E name \in TableCategories :
          \E i, j \in TableSections(name) :
              /\ i < j
              /\ SectionTable(sections[i]) # SectionTable(sections[j])
              /\ all_dataframes[name] = SectionTable(sections[j])

\* the lines of a text, an empty last line after a final line break left out
LinesOf(s) ==
    LET raw == split(s, <<NL>>)
    IN  IF raw[Len(raw)] = <<>> THEN SubSeq(raw, 1, Len(raw) - 1) ELSE raw

HasPipe(line) == Contains(line, <<"|">>)

IsSeparator(line) ==
    line # <<>> /\ \A k \in 1..Len(line) : line[k] \in {"|", "-", " "}

\* a run starts at line h: a header line, a separator line, a data line
RunAt(ls, h) ==
    /\ h + 2 <= Len(ls)
    /\ HasPipe(ls[h]) /\ IsSeparator(ls[h + 1]) /\ HasPipe(ls[h + 2])

\* the last line of the run that starts at line h
RECURSIVE RunLast(_, _)
RunLast(ls, k) == IF k < Len(ls) /\ HasPipe(ls[k + 1]) THEN RunLast(ls, k + 1) ELSE k

\* C4: in a section with a header line, a separator line and data lines with
\* pipes one after the other, the first such run is found and all its data
\* lines are row candidates, a line break after the last data line or not.
C4_RunFound ==
    (pc = "if" /\ section_type(section_title) = "Flights") =>
        LET ls == LinesOf(sections[idx])
            starts == {h \in 1..Len(ls) : RunAt(ls, h)}
        IN  starts # {} =>
                LET h == First(starts)
                    table_match == table_search(sections[idx])
                IN  /\ table_match.found
                    /\ StrippedLines(table_match.group0) = SubSeq(ls, h, RunLast(ls, h + 2))

\* no line of the table pattern, or no data line with the header's cell count
NoValidRow(section) ==
    LET table_match == table_search(section)
    IN  \/ ~table_match.found
        \/ /\ Len(StrippedLines(table_match.group0)) >= 2
           /\ LinesWithCount(DataLinesOf(table_match.group0),
                             HeaderCountOf(table_match.group0)) = <<>>

\* C5: for a section of a table category with no table pattern, or with a
\* header and separator but no data row of the right cell count,
\* parse_markdown_table gives None and not an empty table, the collection is
\* left as it is, the section is displayed as text, and the loop goes on with
\* the next section.
C5_NoTableIsText ==
    [][(pc = "if" /\ section_type(section_title) \in TableCategories
                  /\ NoValidRow(sections[idx]))
          => /\ SectionTable(sections[idx]) = None
             /\ table_search(sections[idx]).found
                   => parse_markdown_table(table_search(sections[idx]).group0) = None
             /\ all_dataframes' = all_dataframes
             /\ Len(rendered') > Len(rendered)
             /\ SubSeq(rendered', 1, Len(rendered)) = rendered
             /\ rendered'[Len(rendered')] =
                   Shown("section", idx, section_type(section_title), None, NoGroup)
             /\ \A k \in (Len(rendered) + 1)..Len(rendered') :
                   rendered'[k].call \notin {"table", "day"}
             /\ idx' = idx + 1
             /\ pc' = "for"]_vars

\* the call returned for a document whose first section has a header, a
\* separator and only a row of the wrong cell count, displayed as text, and
\* whose second section gave a table that was stored
C5_Witness ==
    /\ pc = "return"
    /\ Len(sections) >= 3
    /\ table_search(sections[2]).found /\ NoValidRow(sections[2])
    /\ CategoryOf(2) \in TableCategories
    /\ \E k \in 1..Len(rendered) : rendered[k].call = "section" /\ rendered[k].section = 2
    /\ \E k \in 1..Len(rendered) : rendered[k].call = "table" /\ rendered[k].section = 3
    /\ DOMAIN all_dataframes = {CategoryOf(3)}

\* the keywords in the order they are tested, and their categories
Keywords == <<S_FLIGHT, S_HOTEL, S_ITINERARY, S_BUDGET, S_MAP>>

KeywordCategory == <<"Flights", "Hotels", "Itinerary", "Budget", "Map">>

\* the first line of a fragment once trimmed, in upper case
FirstLineUpper(fragment) ==
    LET t == strip(fragment)
        e == Find(t, 1, <<NL>>)
    IN  upper(IF e = 0 THEN t ELSE SubSeq(t, 1, e - 1))

\* the category of the first keyword found in the first line
FirstKeywordCategory(fragment) ==
    LET line == FirstLineUpper(fragment)
        hits == {k \in 1..5 : Contains(line, Keywords[k])}
    IN  IF hits = {} THEN "Other" ELSE KeywordCategory[First(hits)]

\* C8: the document is split on "##"; a fragment that is empty once trimmed is
\* displayed nowhere; every other fragment already handled is displayed under
\* the category of the first of FLIGHT, HOTEL, ITINERARY, BUDGET, MAP that its
\* first line in upper case contains, under Other if it contains none.
C8_FirstLineClassifies ==
    pc # "call" =>
        /\ sections = split(travel_plan, S_hashes)
        /\ \A k \in 1..Len(rendered) :
              /\ rendered[k].section \in 1..Len(sections)
              /\ strip(sections[rendered[k].section]) # <<>>
              /\ rendered[k].name = FirstKeywordCategory(sections[rendered[k].section])
        /\ \A i \in 1..(idx - 1) :
              strip(sections[i]) # <<>> =>
                  \E k \in 1..Len(rendered) : rendered[k].section = i
        /\ pc = "if" => section_type(section_title) = FirstKeywordCategory(sections[idx])

\* the call returned for a document with a title of two keywords displayed
\* under the earlier one, and a fragment with a keyword in its body only
\* displayed under Other
C8_Witness ==
    /\ pc = "return"
    /\ \E k, m \in 1..Len(rendered) :
          /\ Contains(FirstLineUpper(sections[rendered[k].section]), S_FLIGHT)
          /\ Contains(FirstLineUpper(sections[rendered[k].section]), S_HOTEL)
          /\ rendered[k].name = "Flights"
          /\ Contains(upper(sections[rendered[m].section]), S_FLIGHT)
          /\ rendered[m].name = "Other"

\* the groups displayed for the i-th fragment, in the order displayed
GroupsOf(i) ==
    LET shown == SelectSeq(rendered, LAMBDA e : e.call = "day" /\ e.section = i)
    IN  [g \in 1..Len(shown) |-> shown[g].group]

\* the index of the first element of seq that is v
FirstIndex(seq, v) == First({r \in 1..Len(seq) : seq[r] = v})

\* C9: the rows of the itinerary table are partitioned by their Day cell
\* compared as a string: groups of distinct Day values in the order of their
\* first occurrence, each with the rows of that Day in their original order,
\* every row in one group, the Date of a group that of its first row, empty
\* without a Date column.
C9_GroupsPartitionRows ==
    \A i \in 1..(idx - 1) :
        (strip(sections[i]) # <<>> /\ GroupsOf(i) # <<>>) =>
            LET d == SectionTable(sections[i])
                days == Column(d, S_Day)
                groups == GroupsOf(i)
            IN  /\ \A g, h \in 1..Len(groups) :
                      g < h => /\ groups[g].day # groups[h].day
                               /\ FirstIndex(days, groups[g].day) < FirstIndex(days, groups[h].day)
                /\ \A r \in 1..Len(days) : \E g \in 1..Len(groups) : groups[g].day = days[r]
                /\ \A g \in 1..Len(groups) :
                      LET of_day == {r \in 1..Len(days) : days[r] = groups[g].day}
                          rows == groups[g].day_data
                      IN  /\ Len(rows) = Cardinality(of_day)
                          /\ Len(rows) >= 1
                          /\ \A n \in 1..Len(rows) :
                                \E r \in of_day :
                                    /\ Cardinality({q \in of_day : q < r}) = n - 1
                                    /\ rows[n] = d.data[r]
                          /\ groups[g].date_val =
                                IF HasColumn(d, S_Date)
                                THEN d.data[FirstIndex(days, groups[g].day)][ColumnIndex(d, S_Date)]
                                ELSE <<>>

\* an itinerary with a Date column whose rows of Day "1" are separated by a row
\* of Day "01" was grouped
C9_Witness ==
    /\ pc = "return"
    /\ Len(sections) >= 2
    /\ Len(GroupsOf(2)) = 2
    /\ GroupsOf(2)[1].day = <<"1">> /\ GroupsOf(2)[2].day = <<"0", "1">>
    /\ Len(GroupsOf(2)[1].day_data) = 2
    /\ GroupsOf(2)[1].date_val # <<>>
    /\ Column(SectionTable(sections[2]), S_Day) = <<(<<"1">>), (<<"0", "1">>), (<<"1">>)>>

\* C10: a row of the itinerary table with a blank Day cell is in a group keyed
\* by the empty string, and the rows of all groups together are the rows of
\* the table that have as many cells as the header, blank cells counted.
C10_BlankDayGrouped ==
    \A i \in 1..(idx - 1) :
        (strip(sections[i]) # <<>> /\ GroupsOf(i) # <<>>) =>
            LET table_text_i == table_search(sections[i]).group0
                header == Slots(StrippedLines(table_text_i)[1])
                rows == SlotRows(DataLinesOf(table_text_i), Len(header))
                c == CHOOSE k \in 1..Len(header) : header[k] = S_Day
                groups == GroupsOf(i)
            IN  /\ \A r \in 1..Len(rows) :
                      rows[r][c] = <<>> =>
                          \E g \in 1..Len(groups) :
                              /\ groups[g].day = <<>>
                              /\ \E n \in 1..Len(groups[g].day_data) :
                                    groups[g].day_data[n] = rows[r]
                /\ Len(Concat([g \in 1..Len(groups) |-> groups[g].day_data])) = Len(rows)

\* the text a summary line of day d gives: what follows "**Day d Total" and an
\* optional colon, up to the next "*" or line break, trimmed; <<>> without
\* such a line
SummaryLineOf(section, d) ==
    LET marker == S_stars_Day \o d \o S_Total
        i == Find(section, 1, marker)
        a == i + Len(marker)
        b == IF a <= Len(section) /\ section[a] = ":" THEN a + 1 ELSE a
        stop == First({k \in b..Len(section) : section[k] \in {"*", NL}})
    IN  IF i = 0 THEN <<>>
        ELSE strip(SubSeq(section, b, IF stop = 0 THEN Len(section) ELSE stop - 1))

\* C11: the summary displayed with the group of day d is the text of the line
\* "**Day d Total: ...**" of the section, up to the next "*" or line break; a
\* group whose day has no such line in the section has no summary, so the
\* line of one day is never the summary of another day's group.
C11_SummaryOfItsDay ==
    \A k \in 1..Len(rendered) :
        (rendered[k].call = "day" /\ rendered[k].group.total.kind # "re.error") =>
            LET line == SummaryLineOf(sections[rendered[k].section], rendered[k].group.day)
                total == rendered[k].group.total
            IN  IF line = <<>> THEN total.kind = "None"
                ELSE total.kind = "match" /\ total.total_text = line

\* C12: parse_and_display_travel_plan never raises, whatever the document:
\* repeated header names, Day values with "(" or ".", malformed tables.
C12_NeverRaises == pc # "raised"

\* C13: the Table Extractor gives, for every header line, one that repeats a
\* name included, a table whose column names are pairwise distinct and in the
\* order in which the header row first shows them.
C13_ColumnsDistinct ==
    pc = "parsed" =>
        /\ df.kind # "ValueError"
        /\ df.kind = "DataFrame" =>
              /\ \A a, b \in 1..Len(df.columns) : a # b => df.columns[a] # df.columns[b]
              /\ df.columns = unique(SplitCells(StrippedLines(table_text)[1]))

(***************************************************************************)
(* properties of convert_markdown_links_to_html                            *)
(***************************************************************************)
\* a link [text](url) stands at i, its "]" at j and its ")" at k: the text and
\* the url are not empty, the text has no "]" and the url no ")"
LinkAt(s, i, j, k) ==
    /\ s[i] = "[" /\ i + 1 < j /\ j + 2 < k /\ k <= Len(s)
    /\ s[j] = "]" /\ s[j + 1] = "(" /\ s[k] = ")"
    /\ \A q \in (i + 1)..(j - 1) : s[q] # "]"
    /\ \A q \in (j + 2)..(k - 1) : s[q] # ")"

\* the positions at or after i where a link stands
LinkStarts(s, i) ==
    {a \in i..Len(s) : /\ s[a] = "["
                       /\ \E j \in (a + 2)..Len(s) : /\ s[j] = "]"
                                                     /\ \E k \in (j + 3)..Len(s) : /\ s[k] = ")"
                                                                                   /\ LinkAt(s, a, j, k)}

\* the cell from i on with every link, from left to right, turned into an
\* anchor and everything between the links copied
RECURSIVE Anchored(_, _)
Anchored(s, i) ==
    LET starts == LinkStarts(s, i)
        a == CHOOSE a \in starts : \A o \in starts : a <= o
        j == CHOOSE j \in (a + 2)..Len(s) : \E k \in (j + 3)..Len(s) : LinkAt(s, a, j, k)
        k == CHOOSE k \in (j + 3)..Len(s) : LinkAt(s, a, j, k)
    IN  IF starts = {} THEN SubSeq(s, i, Len(s))
        ELSE SubSeq(s, i, a - 1)
                \o S_a_href \o SubSeq(s, j + 2, k - 1) \o S_target_blank
                \o SubSeq(s, a + 1, j - 1) \o S_a_close
                \o Anchored(s, k + 1)

\* C14: every occurrence of [text](url) in a cell, however many there are, is
\* replaced by <a href="url" target="_blank">text</a>, the text outside the
\* occurrences is kept as it is, and a cell without a link is returned unchanged.
C14_LinksBecomeAnchors ==
    pc = "converted" =>
        /\ converted = Anchored(cell, 1)
        /\ LinkStarts(cell, 1) = {} => converted = cell

\* a cell with two links and text outside them was converted
C14_Witness ==
    /\ pc = "converted"
    /\ \E a, b \in LinkStarts(cell, 1) :
          \E j, k \in 1..Len(cell) : LinkAt(cell, a, j, k) /\ k < b
    /\ cell[1] = "x"
    /\ converted[1] = "x"

(***************************************************************************)
(* the keys of the collection                                              *)
(***************************************************************************)
\* the fragments already handled that are of a category without a table
\* (Map, Other) and hold a well-formed table
UnstoredTables ==
    {i \in 1..(idx - 1) :
        /\ strip(sections[i]) # <<>>
        /\ CategoryOf(i) \notin TableCategories
        /\ SectionTable(sections[i]).kind = "DataFrame"}

\* C15: the collection only has keys from Flights, Hotels, Itinerary, Budget; a
\* key is there only if some section of that category gave a table with at
\* least one row; a Map or Other section adds no entry, whatever it holds.
C15_KeysAreTableCategories ==
    \A name \in DOMAIN all_dataframes :
        /\ name \in TableCategories
        /\ all_dataframes[name].kind = "DataFrame"
        /\ Len(all_dataframes[name].data) >= 1
        /\ \E i \in TableSections(name) : SectionTable(sections[i]) = all_dataframes[name]

\* the call returned for a document with a Map section and an Other section
\* that each hold a well-formed table; the collection is empty
C15_Witness ==
    /\ pc = "return"
    /\ \E i, j \in UnstoredTables : CategoryOf(i) = "Map" /\ CategoryOf(j) = "Other"
    /\ DOMAIN all_dataframes = {}

(***************************************************************************)
(* an itinerary table without a Day column                                 *)
(***************************************************************************)
\* the Itinerary fragments already handled whose table has no column "Day"
FlatItineraries ==
    {i \in TableSections("Itinerary") : ~HasColumn(SectionTable(sections[i]), S_Day)}

\* what was displayed for the i-th fragment after its header and style
BodyShown(i) ==
    SelectSeq(rendered, LAMBDA e : e.section = i /\ e.call \notin {"st.header", "style"})

\* C16: an itinerary table with no column named exactly "Day" is not grouped:
\* it is displayed as one flat table with all its rows, and it is stored in
\* the collection under "Itinerary".
C16_NoDayColumnFlatTable ==
    \A i \in FlatItineraries :
        /\ BodyShown(i) = <<Shown("table", i, "Itinerary", SectionTable(sections[i]), NoGroup)>>
        /\ "Itinerary" \in DOMAIN all_dataframes
        /\ i = Largest(TableSections("Itinerary"))
              => all_dataframes["Itinerary"] = SectionTable(sections[i])

\* the call returned for an itinerary with a column "day" (lower case) and
\* two rows of different days, displayed flat and stored
C16_Witness ==
    /\ pc = "return"
    /\ \E i \in FlatItineraries :
          /\ HasColumn(SectionTable(sections[i]), lower(S_Day))
          /\ Len(SectionTable(sections[i]).data) = 2
          /\ SectionTable(sections[i]).data[1][1] # SectionTable(sections[i]).data[2][1]
          /\ all_dataframes["Itinerary"].data = SectionTable(sections[i]).data

(***************************************************************************)
(* properties of a Generate request                                        *)
(***************************************************************************)
\* the messages of one kind among the messages shown
MessagesOf(shown, call) == SelectSeq(shown, LAMBDA m : m.call = call)

\* the AI call of the request that gave the messages was made (the trip summary
\* of line 995 is shown) and raised (the success message of line 1018 is not)
CallFailed(shown) ==
    /\ MessagesOf(shown, "st.info") # <<>>
    /\ Head(MessagesOf(shown, "st.info")).msg = "Trip Summary"
    /\ MessagesOf(shown, "st.success") = <<>>

\* C17: when the AI call raises, the pipeline is not invoked for the request,
\* exactly one error message is shown, and the stored travel_plan and
\* dataframes of the active session (of every session) are what they were.
C17_FailedCallChangesNothing ==
    [][CallFailed(messages') =>
          /\ parsed_plans' = <<>>
          /\ Len(MessagesOf(messages', "st.error")) = 1
          /\ travel_sessions' = travel_sessions]_vars

\* a request whose inputs were valid ended in the except branch with the
\* message of the NameError
C17_Witness ==
    /\ CallFailed(messages)
    /\ MessagesOf(messages, "st.error") = <<Msg("st.error", "name 'genai' is not defined")>>
    /\ ActiveIndex(travel_sessions, active_session) # 0

\* the messages are those of a request: Generate was pressed in the run
RequestShown(shown) ==
    /\ shown # <<>>
    /\ shown[1] # Msg("st.info", "Previously generated travel plan")

\* the request that gave the messages reached the stores of lines 1025-1026
Succeeded(shown) ==
    /\ MessagesOf(shown, "st.success") # <<>>
    /\ MessagesOf(shown, "st.error") = <<>>

Values(row) == [c \in 1..Len(row) |-> row[c].value]

C19_SameDocumentSameCollection ==
    pc = "return" =>
        \A earlier \in returned : earlier[1] = document => earlier[2] = all_dataframes

\* the third call returned: it was on the document of the first call, which
\* gave two tables, and the second call was on another document
C19_Witness ==
    /\ pc = "return"
    /\ calls = 3
    /\ <<document, all_dataframes>> \in returned
    /\ Cardinality(returned) = 2
    /\ Cardinality(DOMAIN all_dataframes) = 2

(***************************************************************************)
(* a valid request with the API key configured                             *)
(***************************************************************************)
\* the inputs of the request that gave the messages passed the checks of
\* lines 974-979: the trip summary of line 995 is shown
InputsValid(shown) ==
    /\ MessagesOf(shown, "st.info") # <<>>
    /\ Head(MessagesOf(shown, "st.info")).msg = "Trip Summary"

\* C21: a request with valid inputs, made with the API key configured, for
\* which the service has a response text, ends with the plan rendered and
\* stored: the active session's travel_plan is the response text and its
\* dataframes the collection parsed from it; it does not end in the error branch.
C21_ValidRequestSucceeds ==
    [][(GEMINI_API_KEY # Nothing /\ InputsValid(messages')) =>
          /\ MessagesOf(messages', "st.error") = <<>>
          /\ MessagesOf(messages', "st.success") # <<>>
          /\ parsed_plans' # <<>>
          /\ travel_sessions'[ActiveIndex(travel_sessions, active_session)].travel_plan
                = Just(parsed_plans'[1])]_vars

(***************************************************************************)
(* sessions: create, select, delete                                        *)
(***************************************************************************)
\* the ids of the sessions of the list
SessionIds(sessions) == {sessions[i].id : i \in 1..Len(sessions)}

\* C22: active_session is None or the id of a session of travel_sessions,
\* and it is None only when the list is empty.
C22_ActiveSessionInList ==
    /\ active_session # Nothing => active_session[1] \in SessionIds(travel_sessions)
    /\ active_session = Nothing => travel_sessions = <<>>

\* three sessions were created, the first and the third deleted, and the
\* second is the active one
C22_Witness ==
    /\ session_counter = 3
    /\ SessionIds(travel_sessions) = {2}
    /\ active_session = Just(2)

\* the list without its i-th element
Without(sessions, i) ==
    [k \in 1..(Len(sessions) - 1) |-> IF k < i THEN sessions[k] ELSE sessions[k + 1]]

\* C23: a delete removes exactly the session deleted and keeps the others in
\* order; if that session was the active one the first remaining session
\* becomes active (None when none remains), otherwise active_session is unchanged.
C23_DeleteRemovesOne ==
    [][Len(travel_sessions') < Len(travel_sessions) =>
          \E i \in 1..Len(travel_sessions) :
             /\ travel_sessions' = Without(travel_sessions, i)
             /\ active_session' =
                   IF active_session = Just(travel_sessions[i].id)
                   THEN IF Len(travel_sessions) = 1 THEN Nothing
                        ELSE Just(Without(travel_sessions, i)[1].id)
                   ELSE active_session]_vars

\* the first of three sessions was deleted while the third was active, and
\* it still is
C23_Witness ==
    /\ session_counter = 3
    /\ Len(travel_sessions) = 2
    /\ travel_sessions[1].id = 2 /\ travel_sessions[2].id = 3
    /\ active_session = Just(3)

\* C24: the ids of the sessions of the list are pairwise distinct and lie
\* between 1 and session_counter; session_counter never decreases; a session
\* that is created gets an id above every id given before, so never the id of
\* a deleted session.
C24_SessionIdsUnique ==
    /\ [](/\ \A i, j \in 1..Len(travel_sessions) :
                travel_sessions[i].id = travel_sessions[j].id => i = j
          /\ \A i \in 1..Len(travel_sessions) :
                travel_sessions[i].id \in 1..session_counter)
    /\ [][/\ session_counter' >= session_counter
          /\ Len(travel_sessions') > Len(travel_sessions) =>
                /\ travel_sessions'[Len(travel_sessions')].id > session_counter
                /\ SubSeq(travel_sessions', 1, Len(travel_sessions)) = travel_sessions]_vars

\* a session was created after the deletion of another: the list holds the
\* sessions 1 and 3
C24_Witness ==
    /\ session_counter = 3
    /\ Len(travel_sessions) = 2
    /\ travel_sessions[1].id = 1 /\ travel_sessions[2].id = 3

(***************************************************************************)
(* the saved documents of a session                                        *)
(***************************************************************************)
\* C25: the ids of the bookings of a session are pairwise distinct (so that
\* deleting one saved document removes that document and no other).
C25_BookingIdsDistinct ==
    \A a \in 1..Len(travel_sessions) :
        \A i, j \in 1..Len(travel_sessions[a].bookings) :
            travel_sessions[a].bookings[i].id = travel_sessions[a].bookings[j].id => i = j

(***************************************************************************)
(* the checks of the form                                                  *)
(***************************************************************************)
\* C26: a request with an empty origin or destination, with start_date >=
\* end_date, or with budget <= 0 makes no AI call and does not run the
\* pipeline; the only message is the error of the first check that fails, in
\* that order; the sessions' travel_plan and dataframes are unchanged.
C26_InvalidRequestStopsEarly ==
    [][(/\ request' # Nothing
        /\ \/ request'[1].origin = "" \/ request'[1].destination = ""
           \/ request'[1].start_date >= request'[1].end_date
           \/ request'[1].budget <= 0) =>
          /\ messages' = <<Msg("st.error",
                IF request'[1].origin = "" \/ request'[1].destination = ""
                THEN "Please enter both origin and destination cities."
                ELSE IF request'[1].start_date >= request'[1].end_date
                THEN "End date must be after start date."
                ELSE "Please enter a valid budget.")>>
          /\ parsed_plans' = <<>>
          /\ travel_sessions' = travel_sessions]_vars

\* a request failed all three checks, and the error is that of the first
C26_Witness ==
    /\ request # Nothing
    /\ request[1].destination = ""
    /\ request[1].start_date >= request[1].end_date
    /\ request[1].budget <= 0
    /\ messages = <<Msg("st.error", "Please enter both origin and destination cities.")>>

C28_CellCountKept ==
    (pc = "masked" /\ Contains(text, <<"|">>) /\ UrlOccurrences(text, 1) # <<>>)
        => Len(SplitCells(masked_text)) = Len(SplitCells(text))

\* C29: mask_url applied to its own output returns that output unchanged.
C29_MaskIdempotent == pc = "masked" => mask_url(masked_text) = masked_text

====
